---- MODULE Spec2Model ----
(***************************************************************************)
(* A model of the vm-timeline-backend request handlers                     *)
(* (src/routers/*.py, src/middleware/auth.py) over the tables of           *)
(* src/models.py.                                                          *)
(*                                                                         *)
(* Text values that the code inspects character by character (tags, event  *)
(* names, translation texts) are sequences of one-character strings.       *)
(* Text values that the code only stores or compares are plain strings.    *)
(* Optional integer columns use NoId (0) for NULL; primary keys start at   *)
(* 1.  Optional text columns use None.                                     *)
(***************************************************************************)
EXTENDS Integers, Sequences, FiniteSets, TLC

VARIABLES authors, posts, texts, events, links,
          authorSeq, postSeq, textSeq, eventSeq,
          last, calls, cTags, cEncoded, cDecoded, cPc

vars == <<authors, posts, texts, events, links,
          authorSeq, postSeq, textSeq, eventSeq,
          last, calls, cTags, cEncoded, cDecoded, cPc>>

store == <<authors, posts, texts, events, links>>
seqs == <<authorSeq, postSeq, textSeq, eventSeq>>
codecVars == <<cTags, cEncoded, cDecoded, cPc>>

\* NULL of an Optional[int] column and of an Optional[str] column.
NoId == 0
None == <<"None">>

\* ------------------------------------------------------------------
\* Bounds
\* ------------------------------------------------------------------
MaxTagLen == 2
MaxTags == 2
MaxAuthors == 2
MaxCallers == 3
MaxPosts == 3
MaxTexts == 3
MaxPairTexts == 3
MaxEvents == 2
MaxSyncEvents == 2
MaxGuardRows == 1

\* ------------------------------------------------------------------
\* Character-level helpers (Python str.strip, json.dumps, json.loads)
\* ------------------------------------------------------------------
Quote == "\""
Backslash == "\\"
Whitespace == {" ", "\t", "\n", "\r"}
Digits == {"0", "1", "2", "3", "4", "5", "6", "7", "8", "9"}

RECURSIVE LStrip(_)
LStrip(s) ==
    IF s = <<>> THEN <<>>
    ELSE IF Head(s) \in Whitespace THEN LStrip(Tail(s)) ELSE s

RECURSIVE RStrip(_)
RStrip(s) ==
    IF s = <<>> THEN <<>>
    ELSE IF s[Len(s)] \in Whitespace THEN RStrip(SubSeq(s, 1, Len(s) - 1)) ELSE s

\* str.strip()
Strip(s) == RStrip(LStrip(s))

\* json.dumps of one str with ensure_ascii=False: quote, backslash and
\* the control characters are escaped, everything else is copied.
RECURSIVE JsonEscape(_)
JsonEscape(s) ==
    IF s = <<>> THEN <<>>
    ELSE IF Head(s) \in {Quote, Backslash}
         THEN <<Backslash, Head(s)>> \o JsonEscape(Tail(s))
    ELSE IF Head(s) = "\n" THEN <<Backslash, "n">> \o JsonEscape(Tail(s))
    ELSE IF Head(s) = "\t" THEN <<Backslash, "t">> \o JsonEscape(Tail(s))
    ELSE IF Head(s) = "\r" THEN <<Backslash, "r">> \o JsonEscape(Tail(s))
    ELSE <<Head(s)>> \o JsonEscape(Tail(s))

\* A str written between quotes without escaping.
JsonDumpsStr_unescaped(s) == <<Quote>> \o s \o <<Quote>>

JsonDumpsStr(s) == <<Quote>> \o JsonEscape(s) \o <<Quote>>

RECURSIVE JsonJoin(_)
JsonJoin(l) ==
    IF l = <<>> THEN <<>>
    ELSE IF Len(l) = 1 THEN JsonDumpsStr(l[1])
    ELSE JsonDumpsStr(l[1]) \o <<",", " ">> \o JsonJoin(Tail(l))

\* json.dumps of a list of str (default separators ", ").
JsonDumpsList(l) == <<"[">> \o JsonJoin(l) \o <<"]">>

\* --- json.loads, as a recursive-descent parser.  Every parser returns
\* [ok, val, next]: next is the index after the parsed text.
ParseFail == [ok |-> FALSE, val |-> <<>>, next |-> 0]

RECURSIVE SkipWs(_, _)
SkipWs(s, i) ==
    IF i <= Len(s) /\ s[i] \in {" ", "\t", "\n", "\r"} THEN SkipWs(s, i + 1) ELSE i

\* The body of a JSON string starting after the opening quote.
RECURSIVE ScanStr(_, _, _)
ScanStr(s, i, acc) ==
    IF i > Len(s) THEN ParseFail
    ELSE IF s[i] = Quote THEN [ok |-> TRUE, val |-> [kind |-> "str", v |-> acc], next |-> i + 1]
    ELSE IF s[i] = Backslash
         THEN IF i + 1 > Len(s) THEN ParseFail
              ELSE IF s[i + 1] \in {Quote, Backslash, "/"}
                   THEN ScanStr(s, i + 2, Append(acc, s[i + 1]))
                   ELSE IF s[i + 1] = "n" THEN ScanStr(s, i + 2, Append(acc, "\n"))
                   ELSE IF s[i + 1] = "t" THEN ScanStr(s, i + 2, Append(acc, "\t"))
                   ELSE IF s[i + 1] = "r" THEN ScanStr(s, i + 2, Append(acc, "\r"))
                   ELSE ParseFail
    ELSE IF s[i] \in {"\n", "\t", "\r"} THEN ParseFail
    ELSE ScanStr(s, i + 1, Append(acc, s[i]))

RECURSIVE ScanDigits(_, _)
ScanDigits(s, i) ==
    IF i <= Len(s) /\ s[i] \in Digits THEN ScanDigits(s, i + 1) ELSE i

\* An integer literal: optional minus, then 0 or a non-zero-led digit run.
\* The value is the str() of the int, so "-0" gives "0".
ParseInt(s, i) ==
    LET j == IF i <= Len(s) /\ s[i] = "-" THEN i + 1 ELSE i
        k == ScanDigits(s, j)
    IN  IF k = j THEN ParseFail
        ELSE IF s[j] = "0" /\ k > j + 1 THEN ParseFail
        ELSE [ok |-> TRUE,
              val |-> [kind |-> "num",
                       v |-> IF SubSeq(s, i, k - 1) = <<"-", "0">> THEN <<"0">>
                             ELSE SubSeq(s, i, k - 1)],
              next |-> k]

StartsAt(s, i, w) == i + Len(w) - 1 <= Len(s) /\ SubSeq(s, i, i + Len(w) - 1) = w

ParseLiteral(s, i) ==
    IF StartsAt(s, i, <<"t", "r", "u", "e">>)
    THEN [ok |-> TRUE, val |-> [kind |-> "bool", v |-> <<"T", "r", "u", "e">>], next |-> i + 4]
    ELSE IF StartsAt(s, i, <<"f", "a", "l", "s", "e">>)
    THEN [ok |-> TRUE, val |-> [kind |-> "bool", v |-> <<"F", "a", "l", "s", "e">>], next |-> i + 5]
    ELSE IF StartsAt(s, i, <<"n", "u", "l", "l">>)
    THEN [ok |-> TRUE, val |-> [kind |-> "null", v |-> <<>>], next |-> i + 4]
    ELSE ParseFail

RECURSIVE ParseValue(_, _)
RECURSIVE ParseElems(_, _, _)
RECURSIVE ParseMembers(_, _)

\* The members of an object after "{" or after a ",": a string key, a
\* colon and a value each.  The value of an object is never looked at.
ParseMembers(s, i0) ==
    LET i == SkipWs(s, i0)
    IN  IF i > Len(s) \/ s[i] # Quote THEN ParseFail
        ELSE LET k == ScanStr(s, i + 1, <<>>)
             IN  IF ~k.ok THEN ParseFail
                 ELSE LET c == SkipWs(s, k.next)
                      IN  IF c > Len(s) \/ s[c] # ":" THEN ParseFail
                          ELSE LET r == ParseValue(s, c + 1)
                               IN  IF ~r.ok THEN ParseFail
                                   ELSE LET j == SkipWs(s, r.next)
                                        IN  IF j > Len(s) THEN ParseFail
                                            ELSE IF s[j] = "}"
                                                 THEN [ok |-> TRUE, val |-> [kind |-> "obj", v |-> <<>>], next |-> j + 1]
                                            ELSE IF s[j] = ","
                                                 THEN ParseMembers(s, j + 1)
                                            ELSE ParseFail

\* The elements of an array after "[" or after a ",": acc holds the
\* elements parsed so far.
ParseElems(s, i, acc) ==
    LET r == ParseValue(s, i)
    IN  IF ~r.ok THEN ParseFail
        ELSE LET j == SkipWs(s, r.next)
             IN  IF j > Len(s) THEN ParseFail
                 ELSE IF s[j] = "]"
                      THEN [ok |-> TRUE, val |-> [kind |-> "arr", v |-> Append(acc, r.val)], next |-> j + 1]
                 ELSE IF s[j] = ","
                      THEN ParseElems(s, j + 1, Append(acc, r.val))
                 ELSE ParseFail

ParseValue(s, i0) ==
    LET i == SkipWs(s, i0)
    IN  IF i > Len(s) THEN ParseFail
        ELSE IF s[i] = Quote THEN ScanStr(s, i + 1, <<>>)
        ELSE IF s[i] = "["
             THEN LET j == SkipWs(s, i + 1)
                  IN  IF j <= Len(s) /\ s[j] = "]"
                      THEN [ok |-> TRUE, val |-> [kind |-> "arr", v |-> <<>>], next |-> j + 1]
                      ELSE ParseElems(s, j, <<>>)
        ELSE IF s[i] = "{"
             THEN LET j == SkipWs(s, i + 1)
                  IN  IF j <= Len(s) /\ s[j] = "}"
                      THEN [ok |-> TRUE, val |-> [kind |-> "obj", v |-> <<>>], next |-> j + 1]
                      ELSE ParseMembers(s, j)
        ELSE IF s[i] \in Digits \cup {"-"} THEN ParseInt(s, i)
        ELSE ParseLiteral(s, i)

\* json.loads: one value, then only whitespace.
JsonLoads(s) ==
    LET r == ParseValue(s, 1)
    IN  IF r.ok /\ SkipWs(s, r.next) > Len(s) THEN r ELSE ParseFail

\* [str(x) for x in data if isinstance(x, (str, int, float))]; bool is a
\* subclass of int in Python, so a JSON true/false is kept as "True"/"False".
RECURSIVE KeepScalars(_)
KeepScalars(l) ==
    IF l = <<>> THEN <<>>
    ELSE IF Head(l).kind \in {"str", "num", "bool"}
         THEN <<Head(l).v>> \o KeepScalars(Tail(l))
         ELSE KeepScalars(Tail(l))

\* events.py _safe_parse_tags
_safe_parse_tags(tags_json) ==
    LET r == JsonLoads(IF tags_json = <<>> THEN <<"[", "]">> ELSE tags_json)
    IN  IF r.ok /\ r.val.kind = "arr" THEN KeepScalars(r.val.v) ELSE <<>>

RECURSIVE CleanTags(_)
CleanTags(tags) ==
    IF tags = <<>> THEN <<>>
    ELSE IF Head(tags) = None THEN CleanTags(Tail(tags))
    ELSE IF Strip(Head(tags)) # <<>>
         THEN <<Strip(Head(tags))>> \o CleanTags(Tail(tags))
         ELSE CleanTags(Tail(tags))

\* events.py _safe_dump_tags; an absent list (None) is passed as the
\* empty list, which takes the same "not tags" branch.
_safe_dump_tags(tags) ==
    IF tags = <<>> THEN <<"[", "]">>
    ELSE JsonDumpsList(CleanTags(tags))

\* ------------------------------------------------------------------
\* Request/response bookkeeping
\* ------------------------------------------------------------------
NoEff == [none |-> TRUE]

\* dict.get(key, default) on a payload modelled as a function whose
\* domain is the set of keys present.
Get(d, k, default) == IF k \in DOMAIN d THEN d[k] ELSE default

\* The request handled last and its response: op names the handler, tok
\* the bearer token kind, req the path/body inputs, status the HTTP
\* status, eff what the committed transaction inserted or deleted.
\* before is the eff of the request handled just before, when that was
\* the same request and it succeeded (NoEff otherwise).
Respond(op, tok, req, status, eff) ==
    last' = [op |-> op, tok |-> tok, req |-> req, status |-> status, eff |-> eff,
             before |-> IF last.op = op /\ last.status = 200 /\ last.req = req
                        THEN last.eff ELSE NoEff]

\* Bearer token kinds: absent, undecodable, decodable with another
\* subject, decodable with the admin subject.
Tokens == {"none", "invalid", "other", "admin"}

\* middleware/auth.py require_admin (behind oauth2_scheme): passes only
\* for a decodable token whose subject is the admin user.
require_admin(tok) == tok = "admin"

\* Status of a request rejected by the guard: 401 from oauth2_scheme
\* when the header is missing, 403 from require_admin otherwise.
AuthStatus(tok) == IF tok = "none" THEN 401 ELSE 403

Reject(op, tok, req) ==
    /\ Respond(op, tok, req, AuthStatus(tok), NoEff)
    /\ UNCHANGED <<store, seqs, calls, codecVars>>

Fail(op, tok, req, status) ==
    /\ Respond(op, tok, req, status, NoEff)
    /\ UNCHANGED <<store, seqs, calls, codecVars>>

\* Removing rows from a table modelled as a function from ids to rows.
Without(table, ids) == [i \in DOMAIN table \ ids |-> table[i]]
With(table, id, row) == [i \in DOMAIN table \cup {id} |-> IF i = id THEN row ELSE table[i]]

\* ------------------------------------------------------------------
\* routers/authors.py
\* ------------------------------------------------------------------
AuthorsNamed(name) == {a \in DOMAIN authors : authors[a].name = name}

\* create_author without the select of an existing row of that name
\* (and without the unique index).
create_author_unchecked(tok, author) ==
    /\ authorSeq < MaxAuthors
    /\ authors' = With(authors, authorSeq + 1, author)
    /\ authorSeq' = authorSeq + 1
    /\ Respond("create_author", tok, author, 200, [inserted |-> authorSeq + 1])
    /\ UNCHANGED <<posts, texts, events, links, postSeq, textSeq, eventSeq, calls, codecVars>>

\* POST /authors/ : no admin dependency is declared on this route.
create_author(tok, author) ==
    IF AuthorsNamed(author.name) # {}
    THEN Fail("create_author", tok, author, 400)
    ELSE /\ authorSeq < MaxAuthors
         /\ authors' = With(authors, authorSeq + 1, author)
         /\ authorSeq' = authorSeq + 1
         /\ Respond("create_author", tok, author, 200, [inserted |-> authorSeq + 1])
         /\ UNCHANGED <<posts, texts, events, links, postSeq, textSeq, eventSeq, calls, codecVars>>

\* PATCH /authors/{author_id} : no admin dependency is declared on this
\* route.  update holds the fields that were set in the body.  A name
\* taken by another row violates the unique index and the commit fails.
update_author(tok, author_id, update) ==
    LET req == [id |-> author_id, update |-> update]
    IN  IF author_id \notin DOMAIN authors
        THEN Fail("update_author", tok, req, 404)
        ELSE LET new == [f \in DOMAIN authors[author_id] |->
                            Get(update, f, authors[author_id][f])]
             IN  IF AuthorsNamed(new.name) \ {author_id} # {}
                 THEN Fail("update_author", tok, req, 500)
                 ELSE /\ authors' = With(authors, author_id, new)
                      /\ Respond("update_author", tok, req, 200, NoEff)
                      /\ UNCHANGED <<posts, texts, events, links, seqs, calls, codecVars>>

\* delete_author removing the author row only, with the rows that
\* referenced the author left as they were.
delete_author_keeps_references(tok, author_id) ==
    IF ~require_admin(tok) THEN Reject("delete_author", tok, author_id)
    ELSE IF author_id \notin DOMAIN authors
    THEN Fail("delete_author", tok, author_id, 404)
    ELSE /\ authors' = Without(authors, {author_id})
         /\ Respond("delete_author", tok, author_id, 200,
                    [posts |-> {}, texts |-> {}, links |-> {}])
         /\ UNCHANGED <<posts, texts, events, links, seqs, calls, codecVars>>

\* DELETE /authors/{author_id}.  Author.posts and Author.texts carry no
\* delete cascade, so the unit of work sets the author_id of the rows
\* that referenced the author to NULL; Author.events is many-to-many
\* through EventAuthorLink, whose rows for the author are deleted.
delete_author(tok, author_id) ==
    IF ~require_admin(tok) THEN Reject("delete_author", tok, author_id)
    ELSE IF author_id \notin DOMAIN authors
    THEN Fail("delete_author", tok, author_id, 404)
    ELSE /\ authors' = Without(authors, {author_id})
         /\ posts' = [p \in DOMAIN posts |->
                        IF posts[p].author_id = author_id
                        THEN [posts[p] EXCEPT !.author_id = NoId] ELSE posts[p]]
         /\ texts' = [t \in DOMAIN texts |->
                        IF texts[t].author_id = author_id
                        THEN [texts[t] EXCEPT !.author_id = NoId] ELSE texts[t]]
         /\ links' = {l \in links : l.author_id # author_id}
         /\ Respond("delete_author", tok, author_id, 200,
                    [posts |-> {p \in DOMAIN posts : posts[p].author_id = author_id},
                     texts |-> {t \in DOMAIN texts : texts[t].author_id = author_id},
                     links |-> {l \in links : l.author_id = author_id}])
         /\ UNCHANGED <<events, seqs, calls, codecVars>>

\* POST /authors/ensure handled without interleaving: no admin
\* dependency is declared on this route.
ensure_author(tok, author) ==
    IF AuthorsNamed(author.name) # {}
    THEN /\ \E a \in AuthorsNamed(author.name) :
              Respond("ensure_author", tok, author, 200, [returned |-> a])
         /\ UNCHANGED <<store, seqs, calls, codecVars>>
    ELSE /\ authorSeq < MaxAuthors
         /\ authors' = With(authors, authorSeq + 1, author)
         /\ authorSeq' = authorSeq + 1
         /\ Respond("ensure_author", tok, author, 200, [inserted |-> authorSeq + 1])
         /\ UNCHANGED <<posts, texts, events, links, postSeq, textSeq, eventSeq, calls, codecVars>>

\* ------------------------------------------------------------------
\* routers/posts.py
\* ------------------------------------------------------------------
\* POST /posts/ : the row is inserted as given, parent_id included.
create_post(tok, post) ==
    IF ~require_admin(tok) THEN Reject("create_post", tok, post)
    ELSE /\ postSeq < MaxPosts
         /\ posts' = With(posts, postSeq + 1, post)
         /\ postSeq' = postSeq + 1
         /\ Respond("create_post", tok, post, 200, [inserted |-> postSeq + 1])
         /\ UNCHANGED <<authors, texts, events, links, authorSeq, textSeq, eventSeq, calls, codecVars>>

\* create_reply without the assignment reply.parent_id = post_id.
create_reply_keeps_parent(tok, post_id, reply) ==
    LET req == [id |-> post_id, reply |-> reply]
    IN  IF ~require_admin(tok) THEN Reject("create_reply", tok, req)
        ELSE IF post_id \notin DOMAIN posts THEN Fail("create_reply", tok, req, 404)
        ELSE /\ postSeq < MaxPosts
             /\ posts' = With(posts, postSeq + 1, reply)
             /\ postSeq' = postSeq + 1
             /\ Respond("create_reply", tok, req, 200, [inserted |-> postSeq + 1])
             /\ UNCHANGED <<authors, texts, events, links, authorSeq, textSeq, eventSeq, calls, codecVars>>

\* POST /posts/{post_id}/reply
create_reply(tok, post_id, reply) ==
    LET req == [id |-> post_id, reply |-> reply]
    IN  IF ~require_admin(tok) THEN Reject("create_reply", tok, req)
        ELSE IF post_id \notin DOMAIN posts THEN Fail("create_reply", tok, req, 404)
        ELSE /\ postSeq < MaxPosts
             /\ posts' = With(posts, postSeq + 1, [reply EXCEPT !.parent_id = post_id])
             /\ postSeq' = postSeq + 1
             /\ Respond("create_reply", tok, req, 200, [inserted |-> postSeq + 1])
             /\ UNCHANGED <<authors, texts, events, links, authorSeq, textSeq, eventSeq, calls, codecVars>>

\* The posts reached from the posts in ids by following parent_id
\* downwards any number of times (ids included).
RECURSIVE Descendants(_)
Descendants(ids) ==
    LET next == ids \cup {p \in DOMAIN posts : posts[p].parent_id \in ids}
    IN  IF next = ids THEN ids ELSE Descendants(next)

\* What session.delete(post) marks for deletion: Post.children and
\* Post.texts both cascade "all, delete-orphan", so the mark spreads to
\* the children of the post, to their children in turn, and to the
\* texts of every post marked.
CascadePosts(post_id) == Descendants({post_id})
CascadeTexts(post_id) == {t \in DOMAIN texts : texts[t].post_id \in CascadePosts(post_id)}

\* delete_post deleting what its two loops select and the post, without
\* the cascades of Post.children and Post.texts.
delete_post_one_level(tok, post_id) ==
    IF ~require_admin(tok) THEN Reject("delete_post", tok, post_id)
    ELSE IF post_id \notin DOMAIN posts THEN Fail("delete_post", tok, post_id, 404)
    ELSE LET children == {p \in DOMAIN posts : posts[p].parent_id = post_id}
             comments == {t \in DOMAIN texts : texts[t].post_id = post_id}
         IN  /\ posts' = Without(posts, children \cup {post_id})
             /\ texts' = Without(texts, comments)
             /\ Respond("delete_post", tok, post_id, 200,
                        [children |-> children, comments |-> comments,
                         posts |-> children \cup {post_id}, texts |-> comments])
             /\ UNCHANGED <<authors, events, links, seqs, calls, codecVars>>

\* delete_post without the loop over the comments and without the
\* cascade of Post.texts.
delete_post_keeps_comments(tok, post_id) ==
    IF ~require_admin(tok) THEN Reject("delete_post", tok, post_id)
    ELSE IF post_id \notin DOMAIN posts THEN Fail("delete_post", tok, post_id, 404)
    ELSE LET children == {p \in DOMAIN posts : posts[p].parent_id = post_id}
             comments == {t \in DOMAIN texts : texts[t].post_id = post_id}
             delPosts == UNION {CascadePosts(c) : c \in children} \cup CascadePosts(post_id)
         IN  /\ posts' = Without(posts, delPosts)
             /\ texts' = texts
             /\ Respond("delete_post", tok, post_id, 200,
                        [children |-> children, comments |-> comments,
                         posts |-> delPosts, texts |-> {}])
             /\ UNCHANGED <<authors, events, links, seqs, calls, codecVars>>

\* DELETE /posts/{post_id}
delete_post(tok, post_id) ==
    IF ~require_admin(tok) THEN Reject("delete_post", tok, post_id)
    ELSE IF post_id \notin DOMAIN posts THEN Fail("delete_post", tok, post_id, 404)
    ELSE LET children == {p \in DOMAIN posts : posts[p].parent_id = post_id}
             comments == {t \in DOMAIN texts : texts[t].post_id = post_id}
             delPosts == UNION {CascadePosts(c) : c \in children} \cup CascadePosts(post_id)
             delTexts == UNION {CascadeTexts(c) : c \in children} \cup comments
                            \cup CascadeTexts(post_id)
         IN  /\ posts' = Without(posts, delPosts)
             /\ texts' = Without(texts, delTexts)
             /\ Respond("delete_post", tok, post_id, 200,
                        [children |-> children, comments |-> comments,
                         posts |-> delPosts, texts |-> delTexts])
             /\ UNCHANGED <<authors, events, links, seqs, calls, codecVars>>

\* PATCH /posts/{post_id} : updates is the key map of the body; keys
\* that are not attributes of Post are skipped.
update_post(tok, post_id, updates) ==
    LET req == [id |-> post_id, updates |-> updates]
    IN  IF ~require_admin(tok) THEN Reject("update_post", tok, req)
        ELSE IF post_id \notin DOMAIN posts THEN Fail("update_post", tok, req, 404)
        ELSE /\ posts' = With(posts, post_id,
                              [f \in DOMAIN posts[post_id] |-> Get(updates, f, posts[post_id][f])])
             /\ Respond("update_post", tok, req, 200, NoEff)
             /\ UNCHANGED <<authors, texts, events, links, seqs, calls, codecVars>>

\* ------------------------------------------------------------------
\* routers/texts.py
\* ------------------------------------------------------------------
\* str.startswith on the type names of the model.
StartsWith(type, prefix) ==
    \/ prefix = "ig-" /\ type \in {"ig-comment", "ig-translation", "ig-reply"}
    \/ prefix = "tt-" /\ type \in {"tt-comment", "tt-translation", "tt-reply"}

\* POST /texts/ : the body is a whole PostText row, parent_comment_id
\* included.
add_text(tok, text) ==
    IF ~require_admin(tok) THEN Reject("add_text", tok, text)
    ELSE IF text.post_id \notin DOMAIN posts THEN Fail("add_text", tok, text, 404)
    ELSE IF StartsWith(text.type, "ig-") /\ posts[text.post_id].platform # "ig"
    THEN Fail("add_text", tok, text, 400)
    ELSE IF StartsWith(text.type, "tt-") /\ posts[text.post_id].platform # "tt"
    THEN Fail("add_text", tok, text, 400)
    ELSE /\ textSeq < MaxTexts
         /\ texts' = With(texts, textSeq + 1, text)
         /\ textSeq' = textSeq + 1
         /\ Respond("add_text", tok, text, 200, [inserted |-> textSeq + 1])
         /\ UNCHANGED <<authors, posts, events, links, authorSeq, postSeq, eventSeq, calls, codecVars>>

ChildrenOf(text_id) == {t \in DOMAIN texts : texts[t].parent_comment_id = text_id}

\* delete_pair deleting no more than one of the translations.
delete_pair_one_translation(tok, text_id) ==
    IF ~require_admin(tok) THEN Reject("delete_pair", tok, text_id)
    ELSE IF text_id \notin DOMAIN texts THEN Fail("delete_pair", tok, text_id, 404)
    ELSE LET kids == ChildrenOf(text_id)
             one == IF kids = {} THEN {} ELSE {CHOOSE t \in kids : TRUE}
         IN  /\ texts' = Without(texts, one \cup {text_id})
             /\ Respond("delete_pair", tok, text_id, 200, [texts |-> one \cup {text_id}])
             /\ UNCHANGED <<authors, posts, events, links, seqs, calls, codecVars>>

\* DELETE /texts/pair/{text_id}
delete_pair(tok, text_id) ==
    IF ~require_admin(tok) THEN Reject("delete_pair", tok, text_id)
    ELSE IF text_id \notin DOMAIN texts THEN Fail("delete_pair", tok, text_id, 404)
    ELSE /\ texts' = Without(texts, ChildrenOf(text_id) \cup {text_id})
         /\ Respond("delete_pair", tok, text_id, 200,
                    [texts |-> ChildrenOf(text_id) \cup {text_id}])
         /\ UNCHANGED <<authors, posts, events, links, seqs, calls, codecVars>>

\* The companion type of a primary's type; "" where the handler raises.
TranslationType(type) ==
    IF type = "ig-comment" THEN "ig-translation"
    ELSE IF type = "tt-comment" THEN "tt-translation"
    ELSE ""

\* edit_pair with the overrides of the primary stored before the type
\* is looked up in the mapping.
edit_pair_flushes_parent(tok, text_id, payload) ==
    LET req == [id |-> text_id, payload |-> payload]
    IN  IF ~require_admin(tok) THEN Reject("edit_pair", tok, req)
        ELSE IF text_id \notin DOMAIN texts THEN Fail("edit_pair", tok, req, 404)
        ELSE LET old == texts[text_id]
                 parent == [old EXCEPT
                              !.content = Get(payload, "caption", old.content),
                              !.media_url = Get(payload, "media_url", old.media_url),
                              !.author_id = Get(payload, "author_id", old.author_id)]
                 translation_type == TranslationType(parent.type)
                 new_trans == Get(payload, "translation", None)
                 new_lang == Get(payload, "translation_language", "en")
                 kids == ChildrenOf(text_id)
             IN  IF translation_type = ""
                 THEN /\ texts' = With(texts, text_id, parent)
                      /\ Respond("edit_pair", tok, req, 400, NoEff)
                      /\ UNCHANGED <<authors, posts, events, links, seqs, calls, codecVars>>
                 ELSE IF new_trans = None \/ Strip(new_trans) = <<>>
                 THEN IF kids # {}
                      THEN \E child \in kids :
                             /\ texts' = Without(With(texts, text_id, parent), {child})
                             /\ Respond("edit_pair", tok, req, 200, [deleted |-> child])
                             /\ UNCHANGED <<authors, posts, events, links, seqs, calls, codecVars>>
                      ELSE /\ texts' = With(texts, text_id, parent)
                           /\ Respond("edit_pair", tok, req, 200, NoEff)
                           /\ UNCHANGED <<authors, posts, events, links, seqs, calls, codecVars>>
                 ELSE IF kids # {}
                      THEN \E child \in kids :
                             /\ texts' = With(With(texts, text_id, parent), child,
                                              [texts[child] EXCEPT
                                                 !.content = new_trans,
                                                 !.type = translation_type,
                                                 !.language = new_lang,
                                                 !.author_id = parent.author_id])
                             /\ Respond("edit_pair", tok, req, 200, [updated |-> child])
                             /\ UNCHANGED <<authors, posts, events, links, seqs, calls, codecVars>>
                      ELSE /\ textSeq < MaxTexts
                           /\ texts' = With(With(texts, text_id, parent), textSeq + 1,
                                            [post_id |-> parent.post_id,
                                             type |-> translation_type,
                                             language |-> new_lang,
                                             author_id |-> parent.author_id,
                                             content |-> new_trans,
                                             posted_at |-> None,
                                             media_url |-> None,
                                             parent_comment_id |-> text_id])
                           /\ textSeq' = textSeq + 1
                           /\ Respond("edit_pair", tok, req, 200, [inserted |-> textSeq + 1])
                           /\ UNCHANGED <<authors, posts, events, links, authorSeq, postSeq, eventSeq, calls, codecVars>>

\* edit_pair without the lookup of the existing child.
edit_pair_always_inserts(tok, text_id, payload) ==
    LET req == [id |-> text_id, payload |-> payload]
    IN  IF ~require_admin(tok) THEN Reject("edit_pair", tok, req)
        ELSE IF text_id \notin DOMAIN texts THEN Fail("edit_pair", tok, req, 404)
        ELSE LET old == texts[text_id]
                 parent == [old EXCEPT
                              !.content = Get(payload, "caption", old.content),
                              !.media_url = Get(payload, "media_url", old.media_url),
                              !.author_id = Get(payload, "author_id", old.author_id)]
                 translation_type == TranslationType(parent.type)
                 new_trans == Get(payload, "translation", None)
                 new_lang == Get(payload, "translation_language", "en")
                 kids == {}
             IN  IF translation_type = "" THEN Fail("edit_pair", tok, req, 400)
                 ELSE IF new_trans = None \/ Strip(new_trans) = <<>>
                 THEN IF kids # {}
                      THEN \E child \in kids :
                             /\ texts' = Without(With(texts, text_id, parent), {child})
                             /\ Respond("edit_pair", tok, req, 200, [deleted |-> child])
                             /\ UNCHANGED <<authors, posts, events, links, seqs, calls, codecVars>>
                      ELSE /\ texts' = With(texts, text_id, parent)
                           /\ Respond("edit_pair", tok, req, 200, NoEff)
                           /\ UNCHANGED <<authors, posts, events, links, seqs, calls, codecVars>>
                 ELSE IF kids # {}
                      THEN \E child \in kids :
                             /\ texts' = With(With(texts, text_id, parent), child,
                                              [texts[child] EXCEPT
                                                 !.content = new_trans,
                                                 !.type = translation_type,
                                                 !.language = new_lang,
                                                 !.author_id = parent.author_id])
                             /\ Respond("edit_pair", tok, req, 200, [updated |-> child])
                             /\ UNCHANGED <<authors, posts, events, links, seqs, calls, codecVars>>
                      ELSE /\ textSeq < MaxTexts
                           /\ texts' = With(With(texts, text_id, parent), textSeq + 1,
                                            [post_id |-> parent.post_id,
                                             type |-> translation_type,
                                             language |-> new_lang,
                                             author_id |-> parent.author_id,
                                             content |-> new_trans,
                                             posted_at |-> None,
                                             media_url |-> None,
                                             parent_comment_id |-> text_id])
                           /\ textSeq' = textSeq + 1
                           /\ Respond("edit_pair", tok, req, 200, [inserted |-> textSeq + 1])
                           /\ UNCHANGED <<authors, posts, events, links, authorSeq, postSeq, eventSeq, calls, codecVars>>

\* edit_pair whose child deletion does not carry the primary's updates.
edit_pair_drops_parent(tok, text_id, payload) ==
    LET req == [id |-> text_id, payload |-> payload]
    IN  IF ~require_admin(tok) THEN Reject("edit_pair", tok, req)
        ELSE IF text_id \notin DOMAIN texts THEN Fail("edit_pair", tok, req, 404)
        ELSE LET old == texts[text_id]
                 parent == [old EXCEPT
                              !.content = Get(payload, "caption", old.content),
                              !.media_url = Get(payload, "media_url", old.media_url),
                              !.author_id = Get(payload, "author_id", old.author_id)]
                 translation_type == TranslationType(parent.type)
                 new_trans == Get(payload, "translation", None)
                 new_lang == Get(payload, "translation_language", "en")
                 kids == ChildrenOf(text_id)
             IN  IF translation_type = "" THEN Fail("edit_pair", tok, req, 400)
                 ELSE IF new_trans = None \/ Strip(new_trans) = <<>>
                 THEN IF kids # {}
                      THEN \E child \in kids :
                             /\ texts' = Without(texts, {child})
                             /\ Respond("edit_pair", tok, req, 200, [deleted |-> child])
                             /\ UNCHANGED <<authors, posts, events, links, seqs, calls, codecVars>>
                      ELSE /\ texts' = With(texts, text_id, parent)
                           /\ Respond("edit_pair", tok, req, 200, NoEff)
                           /\ UNCHANGED <<authors, posts, events, links, seqs, calls, codecVars>>
                 ELSE IF kids # {}
                      THEN \E child \in kids :
                             /\ texts' = With(With(texts, text_id, parent), child,
                                              [texts[child] EXCEPT
                                                 !.content = new_trans,
                                                 !.type = translation_type,
                                                 !.language = new_lang,
                                                 !.author_id = parent.author_id])
                             /\ Respond("edit_pair", tok, req, 200, [updated |-> child])
                             /\ UNCHANGED <<authors, posts, events, links, seqs, calls, codecVars>>
                      ELSE /\ textSeq < MaxTexts
                           /\ texts' = With(With(texts, text_id, parent), textSeq + 1,
                                            [post_id |-> parent.post_id,
                                             type |-> translation_type,
                                             language |-> new_lang,
                                             author_id |-> parent.author_id,
                                             content |-> new_trans,
                                             posted_at |-> None,
                                             media_url |-> None,
                                             parent_comment_id |-> text_id])
                           /\ textSeq' = textSeq + 1
                           /\ Respond("edit_pair", tok, req, 200, [inserted |-> textSeq + 1])
                           /\ UNCHANGED <<authors, posts, events, links, authorSeq, postSeq, eventSeq, calls, codecVars>>

\* PATCH /texts/pair/{text_id} : payload is the key map of the body.
\* The select of the child takes the first row of an unordered query;
\* with several children any of them may come first.
edit_pair(tok, text_id, payload) ==
    LET req == [id |-> text_id, payload |-> payload]
    IN  IF ~require_admin(tok) THEN Reject("edit_pair", tok, req)
        ELSE IF text_id \notin DOMAIN texts THEN Fail("edit_pair", tok, req, 404)
        ELSE LET old == texts[text_id]
                 parent == [old EXCEPT
                              !.content = Get(payload, "caption", old.content),
                              !.media_url = Get(payload, "media_url", old.media_url),
                              !.author_id = Get(payload, "author_id", old.author_id)]
                 translation_type == TranslationType(parent.type)
                 new_trans == Get(payload, "translation", None)
                 new_lang == Get(payload, "translation_language", "en")
                 kids == ChildrenOf(text_id)
             IN  IF translation_type = "" THEN Fail("edit_pair", tok, req, 400)
                 ELSE IF new_trans = None \/ Strip(new_trans) = <<>>
                 THEN IF kids # {}
                      THEN \E child \in kids :
                             /\ texts' = Without(With(texts, text_id, parent), {child})
                             /\ Respond("edit_pair", tok, req, 200, [deleted |-> child])
                             /\ UNCHANGED <<authors, posts, events, links, seqs, calls, codecVars>>
                      ELSE /\ texts' = With(texts, text_id, parent)
                           /\ Respond("edit_pair", tok, req, 200, NoEff)
                           /\ UNCHANGED <<authors, posts, events, links, seqs, calls, codecVars>>
                 ELSE IF kids # {}
                      THEN \E child \in kids :
                             /\ texts' = With(With(texts, text_id, parent), child,
                                              [texts[child] EXCEPT
                                                 !.content = new_trans,
                                                 !.type = translation_type,
                                                 !.language = new_lang,
                                                 !.author_id = parent.author_id])
                             /\ Respond("edit_pair", tok, req, 200, [updated |-> child])
                             /\ UNCHANGED <<authors, posts, events, links, seqs, calls, codecVars>>
                      ELSE /\ textSeq < MaxTexts
                           /\ texts' = With(With(texts, text_id, parent), textSeq + 1,
                                            [post_id |-> parent.post_id,
                                             type |-> translation_type,
                                             language |-> new_lang,
                                             author_id |-> parent.author_id,
                                             content |-> new_trans,
                                             posted_at |-> None,
                                             media_url |-> None,
                                             parent_comment_id |-> text_id])
                           /\ textSeq' = textSeq + 1
                           /\ Respond("edit_pair", tok, req, 200, [inserted |-> textSeq + 1])
                           /\ UNCHANGED <<authors, posts, events, links, authorSeq, postSeq, eventSeq, calls, codecVars>>

\* ------------------------------------------------------------------
\* routers/events.py
\* ------------------------------------------------------------------
\* Event bodies (EventCreate, EventUpdate) are functions whose domain is
\* the set of fields that are not None in the body.
Has(payload, k) == k \in DOMAIN payload

\* list(dict.fromkeys(ids)): duplicates removed, first occurrence kept.
RECURSIVE Uniq(_)
Uniq(ids) ==
    IF ids = <<>> THEN <<>>
    ELSE LET front == Uniq(SubSeq(ids, 1, Len(ids) - 1))
             x == ids[Len(ids)]
         IN  IF \E i \in 1..Len(front) : front[i] = x THEN front ELSE Append(front, x)

Range(s) == {s[i] : i \in 1..Len(s)}

\* _ensure_authors_exist: the ids of the request that resolve to no
\* Author (the handler raises 400 when there are any) ...
MissingAuthors(author_ids) == {a \in Range(Uniq(author_ids)) : a \notin DOMAIN authors}
\* ... and the authors it returns otherwise, in request order.
_ensure_authors_exist(author_ids) == Uniq(author_ids)

\* "x.strip() if x else None" of create_event.
StripIfSet(payload, k) ==
    IF Has(payload, k) /\ payload[k] # <<>> THEN Strip(payload[k]) ELSE None

\* "x.strip() or None" of update_event.
StripOrNone(x) == IF Strip(x) = <<>> THEN None ELSE Strip(x)

\* select(EventAuthorLink).where(EventAuthorLink.event_id == ...) on the
\* rows of the link table, and the author ids of the result.
LinksIn(rows, event_id) == {l \in rows : l.event_id = event_id}
MembersIn(rows, event_id) == {l.author_id : l \in LinksIn(rows, event_id)}

LinksOf(event_id) == LinksIn(links, event_id)
Members(event_id) == MembersIn(links, event_id)

\* create_event that inserts the Event before it resolves the author ids.
create_event_inserts_first(tok, payload) ==
    IF ~require_admin(tok) THEN Reject("create_event", tok, payload)
    ELSE IF Strip(Get(payload, "name", <<>>)) = <<>>
    THEN Fail("create_event", tok, payload, 400)
    ELSE IF MissingAuthors(Get(payload, "author_ids", <<>>)) # {}
    THEN /\ eventSeq < MaxEvents
         /\ events' = With(events, eventSeq + 1,
                           [name |-> Strip(payload.name), location |-> None, keyword |-> None,
                            tags_json |-> <<"[", "]">>, media_url |-> None, event_date |-> None,
                            announcement_url |-> None, live_url |-> None])
         /\ eventSeq' = eventSeq + 1
         /\ Respond("create_event", tok, payload, 400, NoEff)
         /\ UNCHANGED <<authors, posts, texts, links, authorSeq, postSeq, textSeq, calls, codecVars>>
    ELSE LET found == _ensure_authors_exist(Get(payload, "author_ids", <<>>))
             id == eventSeq + 1
             ev == [name |-> Strip(payload.name),
                    location |-> StripIfSet(payload, "location"),
                    keyword |-> StripIfSet(payload, "keyword"),
                    tags_json |-> _safe_dump_tags(Get(payload, "tags", <<>>)),
                    media_url |-> StripIfSet(payload, "media_url"),
                    event_date |-> StripIfSet(payload, "event_date"),
                    announcement_url |-> StripIfSet(payload, "announcement_url"),
                    live_url |-> StripIfSet(payload, "live_url")]
         IN  /\ eventSeq < MaxEvents
             /\ events' = With(events, id, ev)
             /\ links' = links \cup {[event_id |-> id, author_id |-> found[i]] : i \in 1..Len(found)}
             /\ eventSeq' = id
             /\ Respond("create_event", tok, payload, 200, [inserted |-> id])
             /\ UNCHANGED <<authors, posts, texts, authorSeq, postSeq, textSeq, calls, codecVars>>

\* POST /events/
create_event(tok, payload) ==
    IF ~require_admin(tok) THEN Reject("create_event", tok, payload)
    ELSE IF Strip(Get(payload, "name", <<>>)) = <<>>
    THEN Fail("create_event", tok, payload, 400)
    ELSE IF MissingAuthors(Get(payload, "author_ids", <<>>)) # {}
    THEN Fail("create_event", tok, payload, 400)
    ELSE LET found == _ensure_authors_exist(Get(payload, "author_ids", <<>>))
             id == eventSeq + 1
             ev == [name |-> Strip(payload.name),
                    location |-> StripIfSet(payload, "location"),
                    keyword |-> StripIfSet(payload, "keyword"),
                    tags_json |-> _safe_dump_tags(Get(payload, "tags", <<>>)),
                    media_url |-> StripIfSet(payload, "media_url"),
                    event_date |-> StripIfSet(payload, "event_date"),
                    announcement_url |-> StripIfSet(payload, "announcement_url"),
                    live_url |-> StripIfSet(payload, "live_url")]
         IN  /\ eventSeq < MaxEvents
             /\ events' = With(events, id, ev)
             /\ links' = links \cup {[event_id |-> id, author_id |-> found[i]] : i \in 1..Len(found)}
             /\ eventSeq' = id
             /\ Respond("create_event", tok, payload, 200, [inserted |-> id])
             /\ UNCHANGED <<authors, posts, texts, authorSeq, postSeq, textSeq, calls, codecVars>>

\* The scalar patch of update_event.
PatchEvent(ev, payload) ==
    [f \in DOMAIN ev |->
        IF ~Has(payload, IF f = "tags_json" THEN "tags" ELSE f) THEN ev[f]
        ELSE IF f = "name" THEN Strip(payload.name)
        ELSE IF f = "tags_json" THEN _safe_dump_tags(payload.tags)
        ELSE StripOrNone(payload[f])]

\* update_event that adds the new links without deleting the old ones.
update_event_merges(tok, event_id, payload) ==
    LET req == [id |-> event_id, payload |-> payload]
    IN  IF ~require_admin(tok) THEN Reject("update_event", tok, req)
        ELSE IF event_id \notin DOMAIN events THEN Fail("update_event", tok, req, 404)
        ELSE IF Has(payload, "name") /\ Strip(payload.name) = <<>>
        THEN Fail("update_event", tok, req, 400)
        ELSE LET patched == With(events, event_id, PatchEvent(events[event_id], payload))
             IN  IF ~Has(payload, "author_ids")
                 THEN /\ events' = patched
                      /\ Respond("update_event", tok, req, 200, NoEff)
                      /\ UNCHANGED <<authors, posts, texts, links, seqs, calls, codecVars>>
                 ELSE IF MissingAuthors(payload.author_ids) # {}
                 THEN /\ events' = patched
                      /\ Respond("update_event", tok, req, 400, NoEff)
                      /\ UNCHANGED <<authors, posts, texts, links, seqs, calls, codecVars>>
                 ELSE LET found == _ensure_authors_exist(payload.author_ids)
                      IN  /\ events' = patched
                          /\ links' = links \cup
                                 {[event_id |-> event_id, author_id |-> found[i]] : i \in 1..Len(found)}
                          /\ Respond("update_event", tok, req, 200,
                                     [old_links |-> LinksOf(event_id)])
                          /\ UNCHANGED <<authors, posts, texts, seqs, calls, codecVars>>

\* PATCH /events/{event_id} : the scalar patch is committed first; the
\* author ids are resolved after that commit.
update_event(tok, event_id, payload) ==
    LET req == [id |-> event_id, payload |-> payload]
    IN  IF ~require_admin(tok) THEN Reject("update_event", tok, req)
        ELSE IF event_id \notin DOMAIN events THEN Fail("update_event", tok, req, 404)
        ELSE IF Has(payload, "name") /\ Strip(payload.name) = <<>>
        THEN Fail("update_event", tok, req, 400)
        ELSE LET patched == With(events, event_id, PatchEvent(events[event_id], payload))
             IN  IF ~Has(payload, "author_ids")
                 THEN /\ events' = patched
                      /\ Respond("update_event", tok, req, 200, NoEff)
                      /\ UNCHANGED <<authors, posts, texts, links, seqs, calls, codecVars>>
                 ELSE IF MissingAuthors(payload.author_ids) # {}
                 THEN /\ events' = patched
                      /\ Respond("update_event", tok, req, 400, NoEff)
                      /\ UNCHANGED <<authors, posts, texts, links, seqs, calls, codecVars>>
                 ELSE LET found == _ensure_authors_exist(payload.author_ids)
                      IN  /\ events' = patched
                          /\ links' = (links \ LinksOf(event_id)) \cup
                                 {[event_id |-> event_id, author_id |-> found[i]] : i \in 1..Len(found)}
                          /\ Respond("update_event", tok, req, 200,
                                     [old_links |-> LinksOf(event_id)])
                          /\ UNCHANGED <<authors, posts, texts, seqs, calls, codecVars>>

\* delete_event without the loop over the link rows (and without the
\* removal of the rows by the many-to-many relationship).
delete_event_keeps_links(tok, event_id) ==
    IF ~require_admin(tok) THEN Reject("delete_event", tok, event_id)
    ELSE IF event_id \notin DOMAIN events THEN Fail("delete_event", tok, event_id, 404)
    ELSE /\ events' = Without(events, {event_id})
         /\ links' = links
         /\ Respond("delete_event", tok, event_id, 200, [links |-> {}])
         /\ UNCHANGED <<authors, posts, texts, seqs, calls, codecVars>>

\* DELETE /events/{event_id} : the link rows selected by event_id and
\* the event are deleted in the one commit of the handler.
delete_event(tok, event_id) ==
    IF ~require_admin(tok) THEN Reject("delete_event", tok, event_id)
    ELSE IF event_id \notin DOMAIN events THEN Fail("delete_event", tok, event_id, 404)
    ELSE /\ events' = Without(events, {event_id})
         /\ links' = links \ LinksOf(event_id)
         /\ Respond("delete_event", tok, event_id, 200, [links |-> LinksOf(event_id)])
         /\ UNCHANGED <<authors, posts, texts, seqs, calls, codecVars>>

\* SQL "s LIKE p": % matches any run of characters, _ any one character.
RECURSIVE Like(_, _)
Like(s, p) ==
    IF p = <<>> THEN s = <<>>
    ELSE IF Head(p) = "%"
         THEN Like(s, Tail(p)) \/ (s # <<>> /\ Like(Tail(s), p))
    ELSE IF s = <<>> THEN FALSE
    ELSE (Head(p) = "_" \/ Head(p) = Head(s)) /\ Like(Tail(s), Tail(p))

\* Event.tags_json.contains(needle): tags_json LIKE '%' || needle || '%',
\* the needle's own % and _ not escaped.
Contains(s, needle) == Like(s, <<"%">> \o needle \o <<"%">>)

\* list_events matching the tag itself instead of its quoted form.
ListMatches_unquoted(keyword, tag) ==
    {e \in DOMAIN events :
        /\ (keyword # None /\ keyword # <<>>) => events[e].keyword = keyword
        /\ (tag # None /\ tag # <<>>) => Contains(events[e].tags_json, tag)}

\* The rows list_events selects: keyword and tag are None when the
\* query parameter is absent, and skipped when empty.
ListMatches(keyword, tag) ==
    {e \in DOMAIN events :
        /\ (keyword # None /\ keyword # <<>>) => events[e].keyword = keyword
        /\ (tag # None /\ tag # <<>>) =>
              Contains(events[e].tags_json, <<Quote>> \o tag \o <<Quote>>)}

\* ORDER BY event_date, id: dates are compared as text, NULL before any
\* text.
RECURSIVE TextLess(_, _)
TextLess(a, b) ==
    IF b = <<>> THEN FALSE
    ELSE IF a = <<>> THEN TRUE
    ELSE IF Head(a) = Head(b) THEN TextLess(Tail(a), Tail(b))
    ELSE \E i, j \in 0..9 : /\ Head(a) = <<"0", "1", "2", "3", "4", "5", "6", "7", "8", "9">>[i + 1]
                            /\ Head(b) = <<"0", "1", "2", "3", "4", "5", "6", "7", "8", "9">>[j + 1]
                            /\ i < j

DateLess(a, b) ==
    IF a = None THEN b # None
    ELSE IF b = None THEN FALSE
    ELSE TextLess(a, b)

EventBefore(x, y) ==
    \/ DateLess(events[x].event_date, events[y].event_date)
    \/ events[x].event_date = events[y].event_date /\ x < y

RECURSIVE SortEvents(_, _)
SortEvents(ids, oldest) ==
    IF ids = {} THEN <<>>
    ELSE LET first == CHOOSE x \in ids : \A y \in ids \ {x} :
                         IF oldest THEN EventBefore(x, y) ELSE EventBefore(y, x)
         IN  <<first>> \o SortEvents(ids \ {first}, oldest)

\* GET /events/ : public.  The response is reduced to the ids of the
\* page; matched is the filtered set before offset and limit.
list_events(sort, offset, limit, keyword, tag) ==
    LET matched == ListMatches(keyword, tag)
        sorted == SortEvents(matched, sort = "oldest")
        page == SubSeq(sorted, offset + 1,
                       IF offset + limit < Len(sorted) THEN offset + limit ELSE Len(sorted))
    IN  /\ Respond("list_events", "none",
                   [sort |-> sort, offset |-> offset, limit |-> limit,
                    keyword |-> keyword, tag |-> tag],
                   200, [matched |-> matched, page |-> page])
        /\ UNCHANGED <<store, seqs, calls, codecVars>>

\* ------------------------------------------------------------------
\* Initial state and request inputs
\* ------------------------------------------------------------------
Callers == 1..MaxCallers

NoCall == [pc |-> "idle", author |-> NoEff, status |-> 0, result |-> NoId]

Init ==
    /\ authors = <<>> /\ posts = <<>> /\ texts = <<>> /\ events = <<>>
    /\ links = {}
    /\ authorSeq = 0 /\ postSeq = 0 /\ textSeq = 0 /\ eventSeq = 0
    /\ last = [op |-> "init", tok |-> "none", req |-> NoEff, status |-> 0,
               eff |-> NoEff, before |-> NoEff]
    /\ calls = [c \in Callers |-> NoCall]
    /\ cTags = <<>> /\ cEncoded = <<>> /\ cDecoded = <<>> /\ cPc = "off"

\* A Post body: the fields no handler reads are fixed.
PostBody(platform, author_id, posted_at, parent_id) ==
    [platform |-> platform, external_url |-> "url", external_id |-> "ext",
     author_id |-> author_id, caption |-> None, caption_translation |-> None,
     posted_at |-> posted_at, media_url |-> None, parent_id |-> parent_id]

\* A PostText body.
TextBody(post_id, type, content, parent_comment_id) ==
    [post_id |-> post_id, type |-> type, language |-> "th", author_id |-> NoId,
     content |-> content, posted_at |-> None, media_url |-> None,
     parent_comment_id |-> parent_comment_id]

PostIds == 1..MaxPosts
TextIds == 1..MaxTexts

\* ------------------------------------------------------------------
\* Spec: the post thread store (posts with replies and their comments)
\* ------------------------------------------------------------------
ThreadTokens == {"admin"}

CreatePost ==
    \E tok \in ThreadTokens, parent \in 0..postSeq :
        create_post(tok, PostBody("ig", NoId, None, parent))

CreateReply ==
    \E tok \in ThreadTokens, id \in PostIds :
        create_reply(tok, id, PostBody("ig", NoId, None, NoId))

DeletePost ==
    \E tok \in ThreadTokens, id \in PostIds : delete_post(tok, id)

AddText ==
    \E tok \in ThreadTokens, id \in PostIds :
        add_text(tok, TextBody(id, "ig-comment", <<"c">>, NoId))

Next == CreatePost \/ CreateReply \/ DeletePost \/ AddText

Spec == Init /\ [][Next]_vars

\* ------------------------------------------------------------------
\* Claims checked under Spec
\* ------------------------------------------------------------------
\* C1: a delete_post step that answers 200 removes the post, every post
\* whose parent_id was the post's id and every text whose post_id was
\* the post's id, so that none of them resolves afterwards; a
\* delete_post step that answers 404 leaves every table as it was.
C1_Step ==
    /\ (last'.op = "delete_post" /\ last'.status = 200) =>
          LET id == last'.req
              replies == {p \in DOMAIN posts : posts[p].parent_id = id}
              comments == {t \in DOMAIN texts : texts[t].post_id = id}
          IN  /\ id \notin DOMAIN posts'
              /\ replies \cap DOMAIN posts' = {}
              /\ comments \cap DOMAIN texts' = {}
              /\ \A p \in DOMAIN posts' : posts'[p].parent_id # id
              /\ \A t \in DOMAIN texts' : texts'[t].post_id # id
    /\ (last'.op = "delete_post" /\ last'.status = 404) =>
          /\ last'.req \notin DOMAIN posts
          /\ store' = store

C1_DeleteCascade == [][C1_Step]_vars

\* A top-level post with two replies and three comments has been deleted.
C1_Witness ==
    /\ last.op = "delete_post" /\ last.status = 200
    /\ Cardinality(last.eff.children) = 2
    /\ Cardinality(last.eff.comments) = 3
    /\ last.req \notin DOMAIN posts
    /\ last.eff.children \cap DOMAIN posts = {}
    /\ last.eff.comments \cap DOMAIN texts = {}

\* ------------------------------------------------------------------
\* SpecPair: the comment/translation pairing on the texts of one post
\* ------------------------------------------------------------------
\* One "ig" post exists; the pairing handlers never write posts.
InitPair ==
    /\ authors = <<>> /\ texts = <<>> /\ events = <<>>
    /\ posts = <<PostBody("ig", NoId, None, NoId)>>
    /\ links = {}
    /\ authorSeq = 0 /\ postSeq = 1 /\ textSeq = 0 /\ eventSeq = 0
    /\ last = [op |-> "init", tok |-> "none", req |-> NoEff, status |-> 0,
               eff |-> NoEff, before |-> NoEff]
    /\ calls = [c \in Callers |-> NoCall]
    /\ cTags = <<>> /\ cEncoded = <<>> /\ cDecoded = <<>> /\ cPc = "off"

PairTypes == {"ig-comment", "x-comment"}

\* Bodies of PATCH /texts/pair: empty, with a non-blank translation
\* next to a caption, and with a blank translation next to overrides of
\* caption, media_url and author_id.
PairPayloads ==
    {<<>>,
     [caption |-> <<"d">>, translation |-> <<"t">>],
     [caption |-> <<"d">>, media_url |-> <<"m">>, author_id |-> 1, translation |-> <<" ">>]}

PairIds == 1..MaxPairTexts

\* POST /texts/ for the post or a post that does not exist, with
\* parent_comment_id null or the id of the first text while it is stored.
PairAddText ==
    /\ textSeq < MaxPairTexts
    /\ \E post_id \in {1, 2}, type \in PairTypes, parent \in {NoId} \cup (DOMAIN texts \cap {1}) :
          add_text("admin", TextBody(post_id, type, <<"c">>, parent))

PairEdit ==
    \E id \in PairIds, payload \in PairPayloads :
        /\ edit_pair("admin", id, payload)
        /\ textSeq' <= MaxPairTexts

PairDelete == \E id \in PairIds : delete_pair("admin", id)

NextPair == PairAddText \/ PairEdit \/ PairDelete

SpecPair == InitPair /\ [][NextPair]_vars

IsBlank(payload) ==
    ~Has(payload, "translation") \/ Strip(payload.translation) = <<>>

\* C2: when an edit_pair with a non-blank translation has inserted the
\* child of a primary (which therefore had none) and the same request
\* is handled again, the second call updates that very row and inserts
\* nothing: the primary has exactly one child, the row inserted by the
\* first call, holding the translation.
C2_EditTwice ==
    (/\ last.op = "edit_pair" /\ last.status = 200
     /\ ~IsBlank(last.req.payload)
     /\ "inserted" \in DOMAIN last.before)
    => /\ "updated" \in DOMAIN last.eff
       /\ last.eff.updated = last.before.inserted
       /\ ChildrenOf(last.req.id) = {last.before.inserted}
       /\ textSeq = last.before.inserted
       /\ texts[last.before.inserted].content = last.req.payload.translation

\* The second of two equal edit_pair calls has run after the first one
\* inserted the child.
C2_Witness ==
    /\ last.op = "edit_pair" /\ last.status = 200
    /\ ~IsBlank(last.req.payload)
    /\ "inserted" \in DOMAIN last.before
    /\ "updated" \in DOMAIN last.eff
    /\ Cardinality(ChildrenOf(last.req.id)) = 1

\* C3: an edit_pair step with an absent or blank translation that
\* answers 200 stores the primary with the payload's caption, media_url
\* and author_id applied; when the primary had a child the step deletes
\* one (the row the lookup returned) and leaves every other text alone,
\* and when it had none no other text changes.
C3_Step ==
    (/\ last'.op = "edit_pair" /\ last'.status = 200
     /\ IsBlank(last'.req.payload) /\ last' # last)
    => LET id == last'.req.id
           payload == last'.req.payload
           kids == ChildrenOf(id)
           gone == DOMAIN texts \ DOMAIN texts'
       IN  /\ id \in DOMAIN texts'
           /\ texts'[id].content = Get(payload, "caption", texts[id].content)
           /\ texts'[id].media_url = Get(payload, "media_url", texts[id].media_url)
           /\ texts'[id].author_id = Get(payload, "author_id", texts[id].author_id)
           /\ DOMAIN texts' \subseteq DOMAIN texts
           /\ \A t \in DOMAIN texts' \ {id} : texts'[t] = texts[t]
           /\ IF kids = {} THEN gone = {}
              ELSE \E c \in kids : gone = {c}

C3_BlankTranslation == [][C3_Step]_vars

\* A blank translation with a caption has removed the child of a pair
\* and the primary holds the caption.
C3_Witness ==
    /\ last.op = "edit_pair" /\ last.status = 200
    /\ IsBlank(last.req.payload)
    /\ Has(last.req.payload, "caption")
    /\ "deleted" \in DOMAIN last.eff
    /\ last.eff.deleted \notin DOMAIN texts
    /\ texts[last.req.id].content = last.req.payload.caption

\* ------------------------------------------------------------------
\* SpecSync: events and their membership links
\* ------------------------------------------------------------------
SyncNames == {"n1", "n2"}

\* author_ids lists of the requests: empty, one id, two ids, a
\* duplicate; an id is unknown until its author is created and after
\* the author is deleted.
SyncAuthorIds == {<<>>, <<1>>, <<2, 1>>, <<1, 1>>}

SyncCreatePayloads ==
    {[name |-> <<"e">>], [name |-> <<" ">>]}
    \cup {[name |-> <<"e">>, author_ids |-> ids] : ids \in SyncAuthorIds \ {<<>>}}

SyncUpdatePayloads ==
    {[name |-> <<"f", " ">>], [name |-> <<" ">>]}
    \cup {[author_ids |-> ids] : ids \in {<<>>, <<1>>}}
    \cup {[name |-> <<"f", " ">>, author_ids |-> <<2, 1>>]}

SyncEventIds == 1..MaxSyncEvents

SyncCreateAuthor ==
    \E name \in SyncNames :
        create_author("admin", [name |-> name, profile_photo_url |-> None])

SyncDeleteAuthor == \E a \in 1..MaxAuthors : delete_author("admin", a)

SyncCreate ==
    /\ eventSeq < MaxSyncEvents
    /\ \E payload \in SyncCreatePayloads : create_event("admin", payload)

SyncUpdate ==
    \E id \in SyncEventIds, payload \in SyncUpdatePayloads : update_event("admin", id, payload)

SyncDelete == \E id \in SyncEventIds : delete_event("admin", id)

NextSync == SyncCreateAuthor \/ SyncDeleteAuthor \/ SyncCreate \/ SyncUpdate \/ SyncDelete

SpecSync == Init /\ [][NextSync]_vars

\* C4: an update_event step that answers 200 leaves the event with
\* exactly the ids of author_ids as members when the body carries
\* author_ids (none for an empty list, nothing kept from before), and
\* with the link rows it had when the body carries none; the link rows
\* of the other events stay as they were.
C4_Step ==
    (last'.op = "update_event" /\ last'.status = 200)
    => LET id == last'.req.id
           payload == last'.req.payload
       IN  /\ IF Has(payload, "author_ids")
              THEN MembersIn(links', id) = Range(payload.author_ids)
              ELSE LinksIn(links', id) = LinksIn(links, id)
           /\ links' \ LinksIn(links', id) = links \ LinksIn(links, id)

C4_ReplaceMembership == [][C4_Step]_vars

\* An update with an empty author_ids list has removed the members an
\* event had.
C4_Witness ==
    /\ last.op = "update_event" /\ last.status = 200
    /\ Has(last.req.payload, "author_ids")
    /\ last.req.payload.author_ids = <<>>
    /\ last.eff.old_links # {}
    /\ LinksOf(last.req.id) = {}

\* C5: a create_event step whose author_ids holds an id that resolves to
\* no Author answers 400 and leaves the events, the links and the event
\* id sequence as they were.
C5_Step ==
    (/\ last'.op = "create_event" /\ last' # last
     /\ MissingAuthors(Get(last'.req, "author_ids", <<>>)) # {})
    => /\ last'.status = 400
       /\ events' = events
       /\ links' = links
       /\ eventSeq' = eventSeq

C5_UnknownAuthor == [][C5_Step]_vars

\* A create with a valid name and an unknown author id has been refused.
C5_Witness ==
    /\ last.op = "create_event" /\ last.status = 400
    /\ Strip(last.req.name) # <<>>
    /\ MissingAuthors(Get(last.req, "author_ids", <<>>)) # {}
    /\ eventSeq = 0 /\ events = <<>> /\ links = {}

\* C10: an update_event step that answers 400 leaves the events and the
\* links as they were.
C10_Step ==
    (last'.op = "update_event" /\ last'.status = 400)
    => /\ events' = events
       /\ links' = links

C10_NoPartialUpdate == [][C10_Step]_vars

\* ------------------------------------------------------------------
\* SpecEnsure: concurrent POST /authors/ensure requests
\* ------------------------------------------------------------------
\* Each request runs in its own session.  The handler first selects by
\* name (lines 79-82) and, when it found nothing, adds the row and
\* commits (lines 84-86); other requests may commit in between.  The
\* unique index on Author.name makes the commit of a second row with
\* the same name fail, and the handler does not catch that failure.
EnsureSelect(c, author) ==
    /\ calls[c].pc = "idle"
    /\ IF AuthorsNamed(author.name) # {}
       THEN \E a \in AuthorsNamed(author.name) :
               calls' = [calls EXCEPT ![c] = [pc |-> "done", author |-> author,
                                              status |-> 200, result |-> a]]
       ELSE calls' = [calls EXCEPT ![c] = [pc |-> "insert", author |-> author,
                                           status |-> 0, result |-> NoId]]
    /\ UNCHANGED <<store, seqs, last, codecVars>>

EnsureCommit(c) ==
    /\ calls[c].pc = "insert"
    /\ IF AuthorsNamed(calls[c].author.name) # {}
       THEN /\ calls' = [calls EXCEPT ![c].pc = "done", ![c].status = 500]
            /\ UNCHANGED <<store, seqs, last, codecVars>>
       ELSE /\ authorSeq < MaxAuthors
            /\ authors' = With(authors, authorSeq + 1, calls[c].author)
            /\ authorSeq' = authorSeq + 1
            /\ calls' = [calls EXCEPT ![c].pc = "done", ![c].status = 200,
                                      ![c].result = authorSeq + 1]
            /\ UNCHANGED <<posts, texts, events, links, postSeq, textSeq, eventSeq,
                           last, codecVars>>

EnsureSelectStep ==
    \E c \in Callers, name \in {"n1", "n2"} :
        EnsureSelect(c, [name |-> name, profile_photo_url |-> None])

EnsureCommitStep == \E c \in Callers : EnsureCommit(c)

NextEnsure == EnsureSelectStep \/ EnsureCommitStep

SpecEnsure == Init /\ [][NextEnsure]_vars

\* C6: when two ensure requests for the same name have both finished
\* (no author of that name existed before them), the table holds
\* exactly one author of that name, both requests answered 200 and both
\* returned that author's id.
C6_EnsureConcurrent ==
    \A c1, c2 \in Callers :
        (/\ c1 # c2
         /\ calls[c1].pc = "done" /\ calls[c2].pc = "done"
         /\ calls[c1].author.name = calls[c2].author.name)
        => /\ Cardinality(AuthorsNamed(calls[c1].author.name)) = 1
           /\ calls[c1].status = 200 /\ calls[c2].status = 200
           /\ calls[c1].result \in AuthorsNamed(calls[c1].author.name)
           /\ calls[c2].result = calls[c1].result

\* ------------------------------------------------------------------
\* SpecCodec: the tag codec applied to a list of tags
\* ------------------------------------------------------------------
\* Tags over a letter, a blank and a quote, up to MaxTagLen characters,
\* in lists of up to MaxTags tags.
CodecChars == {"a", " ", Quote}
CodecStrings == UNION {[1..n -> CodecChars] : n \in 0..MaxTagLen}
CodecLists == UNION {[1..n -> CodecStrings] : n \in 0..MaxTags}

InitCodec ==
    /\ authors = <<>> /\ posts = <<>> /\ texts = <<>> /\ events = <<>>
    /\ links = {}
    /\ authorSeq = 0 /\ postSeq = 0 /\ textSeq = 0 /\ eventSeq = 0
    /\ last = [op |-> "init", tok |-> "none", req |-> NoEff, status |-> 0,
               eff |-> NoEff, before |-> NoEff]
    /\ calls = [c \in Callers |-> NoCall]
    /\ cTags \in CodecLists
    /\ cEncoded = <<>> /\ cDecoded = <<>> /\ cPc = "input"

\* tags_json = _safe_dump_tags(payload.tags)
CodecEncode ==
    /\ cPc = "input"
    /\ cEncoded' = _safe_dump_tags(cTags)
    /\ cPc' = "encoded"
    /\ UNCHANGED <<store, seqs, last, calls, cTags, cDecoded>>

\* obj["tags"] = _safe_parse_tags(ev.tags_json)
CodecDecode ==
    /\ cPc = "encoded"
    /\ cDecoded' = _safe_parse_tags(cEncoded)
    /\ cPc' = "decoded"
    /\ UNCHANGED <<store, seqs, last, calls, cTags, cEncoded>>

NextCodec == CodecEncode \/ CodecDecode

SpecCodec == InitCodec /\ [][NextCodec]_vars

NonBlank(tags) == \A i \in 1..Len(tags) : Strip(tags[i]) # <<>>
Trimmed(tags) == [i \in 1..Len(tags) |-> Strip(tags[i])]

\* C7 as stated: for a list of non-blank tags, tags with leading or
\* trailing whitespace included, decoding the encoded list gives back
\* the list.
C7_RoundTrip ==
    (cPc = "decoded" /\ NonBlank(cTags)) => cDecoded = cTags

\* C7 as amended: for a list of non-blank tags, decoding the encoded
\* list gives the tags in the same order, each without its leading and
\* trailing whitespace; it gives back the list itself when no tag
\* begins or ends with whitespace.
C7_RoundTripTrimmed ==
    (cPc = "decoded" /\ NonBlank(cTags))
    => /\ cDecoded = Trimmed(cTags)
       /\ (Trimmed(cTags) = cTags => cDecoded = cTags)

\* Two tags went through the codec, one with a quote inside and one
\* with whitespace to trim.
C7_Witness ==
    /\ cPc = "decoded" /\ NonBlank(cTags) /\ Len(cTags) = 2
    /\ \E i \in 1..2 : Quote \in Range(cTags[i])
    /\ \E i \in 1..2 : Strip(cTags[i]) # cTags[i]
    /\ cDecoded = Trimmed(cTags)

\* ------------------------------------------------------------------
\* SpecList: one GET /events/ request against a stored event
\* ------------------------------------------------------------------
\* Tags and filters over the two characters of the JSON separator (the
\* comma is an ordinary character of a tag), a quote and a LIKE
\* wildcard, up to MaxTagLen characters.
ListChars == {",", " ", Quote, "_"}
ListStrings == UNION {[1..n -> ListChars] : n \in 0..MaxTagLen}

\* The tags of the stored event as the request that created it gave
\* them: none, one or two.
ListTagLists == {<<>>} \cup {<<t>> : t \in ListStrings} \cup (ListStrings \X ListStrings)

\* The table after create_event stored one event with the given tags.
InitList ==
    /\ authors = <<>> /\ posts = <<>> /\ texts = <<>>
    /\ \E tags \in ListTagLists :
          events = <<[name |-> <<"e">>, location |-> None, keyword |-> None,
                      tags_json |-> _safe_dump_tags(tags), media_url |-> None,
                      event_date |-> None, announcement_url |-> None,
                      live_url |-> None]>>
    /\ links = {}
    /\ authorSeq = 0 /\ postSeq = 0 /\ textSeq = 0 /\ eventSeq = 1
    /\ last = [op |-> "init", tok |-> "none", req |-> NoEff, status |-> 0,
               eff |-> NoEff, before |-> NoEff]
    /\ calls = [c \in Callers |-> NoCall]
    /\ cTags = <<>> /\ cEncoded = <<>> /\ cDecoded = <<>> /\ cPc = "off"

ListQuery ==
    /\ last.op = "init"
    /\ \E tag \in ListStrings \cup {None} :
          list_events("newest", 0, 10, None, tag)

NextList == ListQuery

SpecList == InitList /\ [][NextList]_vars

\* The events whose decoded tag list holds the tag itself.
TaggedExactly(tag) ==
    {e \in DOMAIN events : tag \in Range(_safe_parse_tags(events[e].tags_json))}

Filtered == last.op = "list_events" /\ last.req.tag # None /\ last.req.tag # <<>>

PlainFilter(tag) ==
    /\ Range(tag) \cap {Quote, Backslash, "%", "_"} = {}
    /\ Strip(tag) = tag

\* No stored tag holds a quote.
PlainStored ==
    \A e \in DOMAIN events :
        \A i \in 1..Len(_safe_parse_tags(events[e].tags_json)) :
            Quote \notin Range(_safe_parse_tags(events[e].tags_json)[i])

GuardAuthor == [name |-> "n1", profile_photo_url |-> None]

GuardCreateAuthor ==
    /\ authorSeq < MaxGuardRows
    /\ \E tok \in Tokens : create_author(tok, GuardAuthor)

GuardUpdateAuthor ==
    \E tok \in Tokens : update_author(tok, 1, [profile_photo_url |-> <<"p">>])

GuardDeleteAuthor == \E tok \in Tokens : delete_author(tok, 1)

GuardEnsureAuthor ==
    /\ authorSeq < MaxGuardRows
    /\ \E tok \in Tokens : ensure_author(tok, GuardAuthor)

GuardCreatePost ==
    /\ postSeq < MaxGuardRows
    /\ \E tok \in Tokens : create_post(tok, PostBody("ig", NoId, None, NoId))

GuardCreateReply ==
    /\ postSeq < MaxGuardRows + 1
    /\ \E tok \in Tokens : create_reply(tok, 1, PostBody("ig", NoId, None, NoId))

GuardUpdatePost ==
    \E tok \in Tokens, updates \in {[caption |-> <<"c">>], [nonsense |-> <<"c">>]} :
        update_post(tok, 1, updates)

GuardDeletePost == \E tok \in Tokens : delete_post(tok, 1)

GuardAddText ==
    /\ textSeq < MaxGuardRows
    /\ \E tok \in Tokens : add_text(tok, TextBody(1, "ig-comment", <<"c">>, NoId))

GuardEditPair == \E tok \in Tokens : edit_pair(tok, 1, [caption |-> <<"d">>])

GuardDeletePair == \E tok \in Tokens : delete_pair(tok, 1)

GuardCreateEvent ==
    /\ eventSeq < MaxGuardRows
    /\ \E tok \in Tokens : create_event(tok, [name |-> <<"e">>])

GuardUpdateEvent == \E tok \in Tokens : update_event(tok, 1, [name |-> <<"f">>])

GuardDeleteEvent == \E tok \in Tokens : delete_event(tok, 1)

NextGuard ==
    \/ GuardCreateAuthor \/ GuardUpdateAuthor \/ GuardDeleteAuthor \/ GuardEnsureAuthor
    \/ GuardCreatePost \/ GuardCreateReply \/ GuardUpdatePost \/ GuardDeletePost
    \/ GuardAddText \/ GuardEditPair \/ GuardDeletePair
    \/ GuardCreateEvent \/ GuardUpdateEvent \/ GuardDeleteEvent

SpecGuard == Init /\ [][NextGuard]_vars

WriteOps ==
    {"create_author", "update_author", "delete_author", "ensure_author",
     "create_post", "create_reply", "update_post", "delete_post",
     "add_text", "edit_pair", "delete_pair",
     "create_event", "update_event", "delete_event"}

\* C9: a step of a writing route whose token does not pass the admin
\* guard is answered 401 or 403 and leaves every table as it was.
C9_Step ==
    (last'.op \in WriteOps /\ ~require_admin(last'.tok) /\ last' # last)
    => /\ last'.status \in {401, 403}
       /\ store' = store

C9_WritesNeedAdmin == [][C9_Step]_vars

\* ------------------------------------------------------------------
\* SpecTexts: the texts of two posts of different platforms under the
\* four handlers that write texts
\* ------------------------------------------------------------------
\* Post 1 is an "ig" post and post 2 a "tt" post.
InitTexts ==
    /\ authors = <<>> /\ texts = <<>> /\ events = <<>>
    /\ posts = <<PostBody("ig", NoId, None, NoId), PostBody("tt", NoId, None, NoId)>>
    /\ links = {}
    /\ authorSeq = 0 /\ postSeq = 2 /\ textSeq = 0 /\ eventSeq = 0
    /\ last = [op |-> "init", tok |-> "none", req |-> NoEff, status |-> 0,
               eff |-> NoEff, before |-> NoEff]
    /\ calls = [c \in Callers |-> NoCall]
    /\ cTags = <<>> /\ cEncoded = <<>> /\ cDecoded = <<>> /\ cPc = "off"

TextsTypes == {"ig-comment", "tt-comment"}

\* Bodies of PATCH /texts/pair: with and without a translation.
TextsPayloads == {<<>>, [translation |-> <<"t">>]}

\* POST /texts/ with a body for post 1, post 2 or a post that does not
\* exist, of either type, with parent_comment_id null or set.
TextsAddText ==
    \E post_id \in 1..3, type \in TextsTypes, parent \in {NoId} \cup DOMAIN texts :
        add_text("admin", TextBody(post_id, type, <<"c">>, parent))

TextsEdit ==
    \E id \in TextIds, payload \in TextsPayloads : edit_pair("admin", id, payload)

TextsDelete == \E id \in TextIds : delete_pair("admin", id)

TextsDeletePost == \E id \in 1..2 : delete_post("admin", id)

NextTexts == TextsAddText \/ TextsEdit \/ TextsDelete \/ TextsDeletePost

SpecTexts == InitTexts /\ [][NextTexts]_vars

\* C11: in every state reached through add_text, edit_pair, delete_pair
\* and delete_post, every stored text has at most one stored text whose
\* parent_comment_id is its id.
C11_AtMostOneChild ==
    \A t \in DOMAIN texts : Cardinality(ChildrenOf(t)) <= 1

\* ------------------------------------------------------------------
\* SpecAuthors: the author directory under create, ensure and delete
\* ------------------------------------------------------------------
\* Two names that differ only in case, with and without a photo.
DirectoryAuthors ==
    {[name |-> n, profile_photo_url |-> p] : n \in {"n", "N"}, p \in {None, <<"p">>}}

DirectoryCreate == \E author \in DirectoryAuthors : create_author("admin", author)

DirectoryEnsure == \E author \in DirectoryAuthors : ensure_author("admin", author)

DirectoryDelete == \E a \in 1..MaxAuthors : delete_author("admin", a)

NextAuthors == DirectoryCreate \/ DirectoryEnsure \/ DirectoryDelete

SpecAuthors == Init /\ [][NextAuthors]_vars

\* C12: a create_author step for a name that some row already holds
\* (compared exactly, case included) answers 400 and leaves the authors
\* table as it was; and after every step no two rows of the authors
\* table hold the same name.
C12_Step ==
    /\ (last'.op = "create_author" /\ last' # last
        /\ AuthorsNamed(last'.req.name) # {})
       => /\ last'.status = 400
          /\ authors' = authors /\ authorSeq' = authorSeq
    /\ \A a, b \in DOMAIN authors' :
          authors'[a].name = authors'[b].name => a = b

C12_CreateConflict == [][C12_Step]_vars

\* A create for a name that exists has been refused while a row whose
\* name differs from it only in case exists as well.
C12_Witness ==
    /\ last.op = "create_author" /\ last.status = 400
    /\ last.req.name = "n"
    /\ Cardinality(AuthorsNamed("n")) = 1
    /\ Cardinality(AuthorsNamed("N")) = 1
    /\ Cardinality(DOMAIN authors) = 2

\* ------------------------------------------------------------------
\* SpecReply: replies whose body carries a parent_id of its own
\* ------------------------------------------------------------------
ReplyCreatePost == create_post("admin", PostBody("ig", NoId, None, NoId))

\* POST /posts/{id}/reply for an id that may or may not resolve, with a
\* body whose parent_id is null, the id of the path, or another id.
ReplyCreateReply ==
    \E id \in PostIds, parent \in 0..MaxPosts, platform \in {"ig", "x"} :
        create_reply("admin", id, PostBody(platform, NoId, None, parent))

ReplyDeletePost == \E id \in PostIds : delete_post("admin", id)

NextReply == ReplyCreatePost \/ ReplyCreateReply \/ ReplyDeletePost

SpecReply == Init /\ [][NextReply]_vars

\* C13: a create_reply step answers 404 exactly when the id of the path
\* resolves to no post, and then every table is as it was; otherwise it
\* answers 200 and the posts table gains exactly one row, which holds
\* the fields of the body except that its parent_id is the id of the
\* path, whatever parent_id the body carried; no other row changes.
C13_Step ==
    (last'.op = "create_reply" /\ last' # last)
    => LET id == last'.req.id
           reply == last'.req.reply
           new == DOMAIN posts' \ DOMAIN posts
       IN  IF id \notin DOMAIN posts
           THEN /\ last'.status = 404
                /\ store' = store /\ seqs' = seqs
           ELSE /\ last'.status = 200
                /\ Cardinality(new) = 1
                /\ DOMAIN posts \subseteq DOMAIN posts'
                /\ \A p \in DOMAIN posts : posts'[p] = posts[p]
                /\ \A p \in new :
                      /\ posts'[p].parent_id = id
                      /\ posts'[p] = [reply EXCEPT !.parent_id = id]
                /\ texts' = texts

C13_CreateReply == [][C13_Step]_vars

\* A reply whose body named another parent has been stored under the
\* post of the path.
C13_Witness ==
    /\ last.op = "create_reply" /\ last.status = 200
    /\ last.req.reply.parent_id \notin {NoId, last.req.id}
    /\ last.eff.inserted \in DOMAIN posts
    /\ posts[last.eff.inserted].parent_id = last.req.id

\* ------------------------------------------------------------------
\* SpecPlatform: add_text and edit_pair alone on the two posts
\* ------------------------------------------------------------------
NextPlatform == TextsAddText \/ TextsEdit

SpecPlatform == InitTexts /\ [][NextPlatform]_vars

\* C14: in every state reached through add_text and edit_pair, a stored
\* text whose type begins with "ig-" belongs to a post whose platform is
\* "ig", and one whose type begins with "tt-" to a post whose platform
\* is "tt".
C14_TypeMatchesPlatform ==
    \A t \in DOMAIN texts :
        texts[t].post_id \in DOMAIN posts =>
            /\ StartsWith(texts[t].type, "ig-") => posts[texts[t].post_id].platform = "ig"
            /\ StartsWith(texts[t].type, "tt-") => posts[texts[t].post_id].platform = "tt"

\* ------------------------------------------------------------------
\* Further claims checked under SpecPair
\* ------------------------------------------------------------------
\* C15: a delete_pair step answers 404 exactly when the id resolves to
\* no text, and then every table is as it was; otherwise it answers 200
\* and the texts table loses the text and every text whose
\* parent_comment_id was its id, however many, and nothing else: every
\* remaining text is as it was and none refers to the id.
C15_Step ==
    (last'.op = "delete_pair" /\ last' # last)
    => LET id == last'.req
       IN  IF id \notin DOMAIN texts
           THEN /\ last'.status = 404
                /\ store' = store /\ seqs' = seqs
           ELSE /\ last'.status = 200
                /\ DOMAIN texts' = DOMAIN texts \ ({id} \cup ChildrenOf(id))
                /\ \A t \in DOMAIN texts' :
                      /\ texts'[t] = texts[t]
                      /\ texts'[t].parent_comment_id # id
                /\ posts' = posts

C15_DeletePair == [][C15_Step]_vars

\* A primary with two translations has been deleted with both of them.
C15_Witness ==
    /\ last.op = "delete_pair" /\ last.status = 200
    /\ Cardinality(last.eff.texts) = 3
    /\ last.eff.texts \cap DOMAIN texts = {}

\* C16: an edit_pair step on a stored text whose type has no companion
\* translation type answers 400 and leaves the texts table as it was:
\* the content, media_url and author_id of the text and every child of
\* it are the same as before, whatever the body carried.
C16_Step ==
    (/\ last'.op = "edit_pair" /\ last' # last
     /\ last'.req.id \in DOMAIN texts
     /\ TranslationType(texts[last'.req.id].type) = "")
    => /\ last'.status = 400
       /\ texts' = texts
       /\ store' = store /\ seqs' = seqs

C16_UnmappedType == [][C16_Step]_vars

\* An edit_pair carrying a caption was refused on a text of an unmapped
\* type that has a child, and the text still holds its old content.
C16_Witness ==
    /\ last.op = "edit_pair" /\ last.status = 400
    /\ Has(last.req.payload, "caption")
    /\ last.req.id \in DOMAIN texts
    /\ texts[last.req.id].type = "x-comment"
    /\ ChildrenOf(last.req.id) # {}
    /\ texts[last.req.id].content # last.req.payload.caption

\* ------------------------------------------------------------------
\* Further claims checked under SpecSync
\* ------------------------------------------------------------------
\* C17: a delete_event step answers 404 exactly when the id resolves to
\* no event, and then every table is as it was; otherwise it answers
\* 200 and removes the event together with every link row of that
\* event_id, leaving the other events and their link rows as they
\* were; and after every step every link row refers to a stored event.
C17_Step ==
    /\ (last'.op = "delete_event" /\ last' # last)
       => LET id == last'.req
          IN  IF id \notin DOMAIN events
              THEN /\ last'.status = 404
                   /\ store' = store
              ELSE /\ last'.status = 200
                   /\ DOMAIN events' = DOMAIN events \ {id}
                   /\ \A e \in DOMAIN events' : events'[e] = events[e]
                   /\ links' = {l \in links : l.event_id # id}
    /\ \A l \in links' : l.event_id \in DOMAIN events'

C17_DeleteEvent == [][C17_Step]_vars

\* An event with two members has been deleted with both link rows while
\* another event keeps its member.
C17_Witness ==
    /\ last.op = "delete_event" /\ last.status = 200
    /\ Cardinality(last.eff.links) = 2
    /\ last.req \notin DOMAIN events
    /\ LinksOf(last.req) = {}
    /\ links # {}

\* ------------------------------------------------------------------
\* SpecDecode: _safe_parse_tags applied to a stored tags_json scalar
\* ------------------------------------------------------------------
\* JSON texts of one value each: a string, two integers, the three
\* literals, a nested array, two objects, and a text that is no JSON.
DecodeElems ==
    {<<Quote, "a", Quote>>, <<"1">>, <<"-", "0">>,
     <<"t", "r", "u", "e">>, <<"f", "a", "l", "s", "e">>, <<"n", "u", "l", "l">>,
     <<"[", "1", "]">>, <<"{", "}">>, <<"{", Quote, "k", Quote, ":", "1", "}">>,
     <<"x">>}

RECURSIVE DecodeJoin(_)
DecodeJoin(l) ==
    IF l = <<>> THEN <<>>
    ELSE IF Len(l) = 1 THEN l[1]
    ELSE l[1] \o <<",", " ">> \o DecodeJoin(Tail(l))

\* Arrays of up to MaxTags of these texts.
DecodeArrays ==
    {<<"[">> \o DecodeJoin(l) \o <<"]">> : l \in UNION {[1..n -> DecodeElems] : n \in 0..MaxTags}}

\* The stored scalars: the arrays, each text on its own (JSON that is
\* no array, or no JSON), the empty text, and arrays cut short.
DecodeScalars ==
    DecodeArrays \cup DecodeElems
    \cup {<<>>, <<"[">>, <<"[", "1">>, <<"[", "1", ",", "]">>, <<"[", Quote, "a", "]">>}

InitDecode ==
    /\ authors = <<>> /\ posts = <<>> /\ texts = <<>> /\ events = <<>>
    /\ links = {}
    /\ authorSeq = 0 /\ postSeq = 0 /\ textSeq = 0 /\ eventSeq = 0
    /\ last = [op |-> "init", tok |-> "none", req |-> NoEff, status |-> 0,
               eff |-> NoEff, before |-> NoEff]
    /\ calls = [c \in Callers |-> NoCall]
    /\ cTags = <<>>
    /\ cEncoded \in DecodeScalars
    /\ cDecoded = <<>> /\ cPc = "stored"

\* obj["tags"] = _safe_parse_tags(ev.tags_json)
DecodeStored ==
    /\ cPc = "stored"
    /\ cDecoded' = _safe_parse_tags(cEncoded)
    /\ cPc' = "parsed"
    /\ UNCHANGED <<store, seqs, last, calls, cTags, cEncoded>>

NextDecode == DecodeStored

SpecDecode == InitDecode /\ [][NextDecode]_vars

\* The elements of a parsed array that are strings or numbers, numbers
\* in their string form; booleans, null, arrays and objects left out.
RECURSIVE StringsAndNumbers(_)
StringsAndNumbers(l) ==
    IF l = <<>> THEN <<>>
    ELSE IF Head(l).kind \in {"str", "num"}
         THEN <<Head(l).v>> \o StringsAndNumbers(Tail(l))
         ELSE StringsAndNumbers(Tail(l))

\* C18: the decoded value of a stored scalar is the empty list when the
\* scalar is empty, is no JSON or is JSON other than an array; for an
\* array it is the list of its string elements and, in their string
\* form, its numeric elements, in order, with booleans, null, nested
\* arrays and objects dropped.
C18_DecodeTotal ==
    cPc = "parsed" =>
        LET r == JsonLoads(cEncoded)
        IN  IF r.ok /\ r.val.kind = "arr"
            THEN cDecoded = StringsAndNumbers(r.val.v)
            ELSE cDecoded = <<>>

\* ------------------------------------------------------------------
\* SpecRefs: rows that refer to authors, with authors coming and going
\* ------------------------------------------------------------------
MaxRefRows == 1

RefsCreateAuthor ==
    \E name \in {"n1", "n2"} :
        create_author("admin", [name |-> name, profile_photo_url |-> None])

RefsDeleteAuthor == \E a \in 1..MaxAuthors : delete_author("admin", a)

\* POST /posts/ and POST /texts/ with an author_id that is null, the id
\* of an author, or an id no author has.
RefsCreatePost ==
    /\ postSeq < MaxRefRows
    /\ \E a \in 0..MaxAuthors : create_post("admin", PostBody("ig", a, None, NoId))

RefsAddText ==
    /\ textSeq < MaxRefRows
    /\ \E a \in 0..MaxAuthors :
          add_text("admin", [TextBody(1, "ig-comment", <<"c">>, NoId) EXCEPT !.author_id = a])

RefsCreateEvent ==
    /\ eventSeq < MaxRefRows
    /\ \E ids \in {<<1>>, <<2, 1>>} :
          create_event("admin", [name |-> <<"e">>, author_ids |-> ids])

NextRefs ==
    RefsCreateAuthor \/ RefsDeleteAuthor \/ RefsCreatePost \/ RefsAddText \/ RefsCreateEvent

SpecRefs == Init /\ [][NextRefs]_vars

\* The ids of the rows of posts, texts and links whose author_id is a.
HoldersOf(a) ==
    [posts |-> {p \in DOMAIN posts : posts[p].author_id = a},
     texts |-> {t \in DOMAIN texts : texts[t].author_id = a},
     links |-> {l \in links : l.author_id = a}]

NoHolders == [posts |-> {}, texts |-> {}, links |-> {}]

\* C19 as stated: in every reachable state, an id whose author has been
\* deleted (ids are handed out in order and not handed out again) is
\* the author_id of no post, no text and no link row.
C19_NoDanglingAuthor ==
    \A a \in (1..authorSeq) \ DOMAIN authors : HoldersOf(a) = NoHolders

\* C19 as amended: in the state a delete_author step that answers 200
\* leaves behind, no post, text or link row holds the deleted id: the
\* posts and texts that held it have a null author_id and are otherwise
\* as they were, the link rows that held it are gone, and every other
\* row is as it was.
C19_Step ==
    (last'.op = "delete_author" /\ last'.status = 200 /\ last' # last)
    => LET a == last'.req
       IN  /\ a \notin DOMAIN authors'
           /\ \A p \in DOMAIN posts' : posts'[p].author_id # a
           /\ \A t \in DOMAIN texts' : texts'[t].author_id # a
           /\ \A l \in links' : l.author_id # a
           /\ DOMAIN posts' = DOMAIN posts /\ DOMAIN texts' = DOMAIN texts
           /\ \A p \in DOMAIN posts :
                 posts'[p] = IF posts[p].author_id = a
                             THEN [posts[p] EXCEPT !.author_id = NoId] ELSE posts[p]
           /\ \A t \in DOMAIN texts :
                 texts'[t] = IF texts[t].author_id = a
                             THEN [texts[t] EXCEPT !.author_id = NoId] ELSE texts[t]
           /\ links' = {l \in links : l.author_id # a}

C19_DeleteAuthorClears == [][C19_Step]_vars

\* An author held by a post, a text and a link row has been deleted,
\* and none of the three holds the id any more.
C19_Witness ==
    /\ last.op = "delete_author" /\ last.status = 200
    /\ last.eff.posts # {} /\ last.eff.texts # {} /\ last.eff.links # {}
    /\ HoldersOf(last.req) = NoHolders
    /\ \A p \in last.eff.posts : posts[p].author_id = NoId
    /\ \A t \in last.eff.texts : texts[t].author_id = NoId

\* ------------------------------------------------------------------
\* Further claims checked under Spec
\* ------------------------------------------------------------------
\* C20 as stated: a delete_post step that answers 200 leaves every post
\* whose parent_id is a direct child of the deleted post, and every
\* text whose post_id is not the deleted post's id, stored and as it
\* was.
C20_OneLevelStep ==
    (last'.op = "delete_post" /\ last'.status = 200 /\ last' # last)
    => LET id == last'.req
           children == {p \in DOMAIN posts : posts[p].parent_id = id}
       IN  /\ \A g \in DOMAIN posts :
                 posts[g].parent_id \in children =>
                     g \in DOMAIN posts' /\ posts'[g] = posts[g]
           /\ \A t \in DOMAIN texts :
                 texts[t].post_id # id =>
                     t \in DOMAIN texts' /\ texts'[t] = texts[t]

C20_OneLevel == [][C20_OneLevelStep]_vars

\* C20 as amended: a delete_post step that answers 200 removes the
\* post and, level after level, every post whose parent_id is a removed
\* post, together with every text whose post_id is a removed post;
\* every other post and every other text is stored and as it was.
C20_Step ==
    (last'.op = "delete_post" /\ last'.status = 200 /\ last' # last)
    => LET id == last'.req
           removed == DOMAIN posts \ DOMAIN posts'
       IN  /\ DOMAIN posts' \subseteq DOMAIN posts
           /\ \A p \in DOMAIN posts :
                 p \in removed <=> (p = id \/ posts[p].parent_id \in removed)
           /\ \A p \in DOMAIN posts' : posts'[p] = posts[p]
           /\ DOMAIN texts' = {t \in DOMAIN texts : texts[t].post_id \notin removed}
           /\ \A t \in DOMAIN texts' : texts'[t] = texts[t]

C20_WholeThread == [][C20_Step]_vars

\* A post has been deleted with its reply, the reply of that reply and
\* a comment of the reply.
C20_Witness ==
    /\ last.op = "delete_post" /\ last.status = 200
    /\ Cardinality(last.eff.children) = 1
    /\ Cardinality(last.eff.posts) = 3
    /\ last.eff.texts \ last.eff.comments # {}
    /\ last.eff.posts \cap DOMAIN posts = {}
    /\ last.eff.texts \cap DOMAIN texts = {}

\* ------------------------------------------------------------------
\* SpecCommits: the commits of create_event and update_event, one by one
\* ------------------------------------------------------------------
\* Each request runs in its own session and every session.commit() of a
\* handler ends a transaction; other requests may commit in between.
\* create_event commits the Event row (lines 185-187) and then its link
\* rows (lines 190-192).  update_event commits the scalar fields
\* (lines 234-236), then the removal of the old link rows (lines
\* 240-247), then the new link rows (lines 249-251).
InitCommits ==
    /\ authors = (1 :> [name |-> "n1", profile_photo_url |-> None]) @@
                 (2 :> [name |-> "n2", profile_photo_url |-> None])
    /\ posts = <<>> /\ texts = <<>>
    /\ events = (1 :> [name |-> <<"e">>, location |-> None, keyword |-> None,
                       tags_json |-> <<"[", "]">>, media_url |-> None,
                       event_date |-> None, announcement_url |-> None,
                       live_url |-> None])
    /\ links = {[event_id |-> 1, author_id |-> 1]}
    /\ authorSeq = 2 /\ postSeq = 0 /\ textSeq = 0 /\ eventSeq = 1
    /\ last = [op |-> "init", tok |-> "none", req |-> NoEff, status |-> 0,
               eff |-> NoEff, before |-> NoEff]
    /\ calls = [c \in Callers |-> NoCall]
    /\ cTags = <<>> /\ cEncoded = <<>> /\ cDecoded = <<>> /\ cPc = "idle"

\* The position of a request between its commits.
Call(pc, op, id, payload, found, old, status) ==
    [pc |-> pc, op |-> op, id |-> id, payload |-> payload, found |-> found,
     old |-> old, status |-> status]

LinkRows(event_id, found) ==
    {[event_id |-> event_id, author_id |-> found[i]] : i \in 1..Len(found)}

\* create_event up to its first commit: the Event row.
create_event_commit_event(c, payload) ==
    /\ calls[c].pc = "idle"
    /\ IF Strip(Get(payload, "name", <<>>)) = <<>>
          \/ MissingAuthors(Get(payload, "author_ids", <<>>)) # {}
       THEN /\ calls' = [calls EXCEPT ![c] =
                            Call("done", "create_event", NoId, payload, <<>>, {}, 400)]
            /\ UNCHANGED <<store, seqs, last, codecVars>>
       ELSE LET found == _ensure_authors_exist(Get(payload, "author_ids", <<>>))
                id == eventSeq + 1
                ev == [name |-> Strip(payload.name),
                       location |-> StripIfSet(payload, "location"),
                       keyword |-> StripIfSet(payload, "keyword"),
                       tags_json |-> _safe_dump_tags(Get(payload, "tags", <<>>)),
                       media_url |-> StripIfSet(payload, "media_url"),
                       event_date |-> StripIfSet(payload, "event_date"),
                       announcement_url |-> StripIfSet(payload, "announcement_url"),
                       live_url |-> StripIfSet(payload, "live_url")]
            IN  /\ eventSeq < MaxEvents
                /\ events' = With(events, id, ev)
                /\ eventSeq' = id
                /\ calls' = [calls EXCEPT ![c] =
                                Call("links", "create_event", id, payload, found, {}, 0)]
                /\ UNCHANGED <<authors, posts, texts, links, authorSeq, postSeq, textSeq,
                               last, codecVars>>

\* The second commit of create_event and of update_event: the link
\* rows of the authors resolved earlier.  A row whose (event_id,
\* author_id) is already stored violates the primary key of the link
\* table: the commit fails, nothing is inserted, the answer is 500.
commit_links(c) ==
    /\ calls[c].pc = "links"
    /\ LET rows == LinkRows(calls[c].id, calls[c].found)
       IN  IF rows \cap links # {}
           THEN /\ calls' = [calls EXCEPT ![c].pc = "done", ![c].status = 500]
                /\ UNCHANGED <<store, seqs, last, codecVars>>
           ELSE /\ links' = links \cup rows
                /\ calls' = [calls EXCEPT ![c].pc = "done", ![c].status = 200]
                /\ UNCHANGED <<authors, posts, texts, events, seqs, last, codecVars>>

\* update_event up to its first commit: the scalar fields.
update_event_commit_scalars(c, event_id, payload) ==
    /\ calls[c].pc = "idle"
    /\ IF event_id \notin DOMAIN events
       THEN /\ calls' = [calls EXCEPT ![c] =
                            Call("done", "update_event", event_id, payload, <<>>, {}, 404)]
            /\ UNCHANGED <<store, seqs, last, codecVars>>
       ELSE IF Has(payload, "name") /\ Strip(payload.name) = <<>>
       THEN /\ calls' = [calls EXCEPT ![c] =
                            Call("done", "update_event", event_id, payload, <<>>, {}, 400)]
            /\ UNCHANGED <<store, seqs, last, codecVars>>
       ELSE /\ events' = With(events, event_id, PatchEvent(events[event_id], payload))
            /\ calls' = [calls EXCEPT ![c] =
                            IF Has(payload, "author_ids")
                            THEN Call("unlink", "update_event", event_id, payload, <<>>, {}, 0)
                            ELSE Call("done", "update_event", event_id, payload, <<>>, {}, 200)]
            /\ UNCHANGED <<authors, posts, texts, links, seqs, last, codecVars>>

\* update_event from there to its second commit: the author ids are
\* resolved, the link rows of the event are selected and deleted.
update_event_commit_unlink(c) ==
    /\ calls[c].pc = "unlink"
    /\ IF MissingAuthors(calls[c].payload.author_ids) # {}
       THEN /\ calls' = [calls EXCEPT ![c].pc = "done", ![c].status = 400]
            /\ UNCHANGED <<store, seqs, last, codecVars>>
       ELSE /\ links' = links \ LinksOf(calls[c].id)
            /\ calls' = [calls EXCEPT ![c].pc = "links",
                                      ![c].found = _ensure_authors_exist(calls[c].payload.author_ids),
                                      ![c].old = Members(calls[c].id)]
            /\ UNCHANGED <<authors, posts, texts, events, seqs, last, codecVars>>

CommitsAuthorIds == {<<1>>, <<2>>}

CommitsCreateEvent ==
    \E c \in Callers, ids \in CommitsAuthorIds :
        create_event_commit_event(c, [name |-> <<"e">>, author_ids |-> ids])

CommitsUpdateScalars ==
    \E c \in Callers, id \in 1..MaxEvents :
        \E payload \in {[name |-> <<"f">>]} \cup
                       {[author_ids |-> ids] : ids \in CommitsAuthorIds} :
            update_event_commit_scalars(c, id, payload)

CommitsUnlink == \E c \in Callers : update_event_commit_unlink(c)

CommitsLinks == \E c \in Callers : commit_links(c)

NextCommits == CommitsCreateEvent \/ CommitsUpdateScalars \/ CommitsUnlink \/ CommitsLinks

SpecCommits == InitCommits /\ [][NextCommits]_vars

\* The requests other than those of the callers cs are not at work on
\* the event: they have not started, or are about another event, or
\* have answered before changing a link row of it.
OthersAway(cs, event_id) ==
    \A c \in Callers \ cs :
        \/ calls[c].pc = "idle"
        \/ calls[c].id # event_id
        \/ calls[c].pc = "done" /\ ~Has(calls[c].payload, "author_ids")

\* C21: the writes of one Event operation commit together.  While no
\* other request works on the event, (a) an update with author_ids
\* that has removed the old links and not yet answered leaves the
\* membership at the complete old set or the complete new set, (b) a
\* created event that is stored has the links of its request, and (c)
\* when exactly two updates with author_ids of one event have both
\* answered, the membership is the set one of them asked for.
C21_IntermediateHidden ==
    \A c \in Callers :
        (/\ calls[c].pc = "links" /\ calls[c].op = "update_event"
         /\ OthersAway({c}, calls[c].id))
        => Members(calls[c].id) \in {calls[c].old, Range(calls[c].found)}

C21_CreatedWithLinks ==
    \A c \in Callers :
        (/\ calls[c].pc = "links" /\ calls[c].op = "create_event"
         /\ OthersAway({c}, calls[c].id))
        => Members(calls[c].id) = Range(calls[c].found)

C21_OneOfTwo ==
    \A c1, c2 \in Callers :
        (/\ c1 # c2
         /\ calls[c1].pc = "done" /\ calls[c2].pc = "done"
         /\ calls[c1].op = "update_event" /\ calls[c2].op = "update_event"
         /\ calls[c1].id = calls[c2].id
         /\ calls[c1].status \in {200, 500} /\ calls[c2].status \in {200, 500}
         /\ Has(calls[c1].payload, "author_ids") /\ Has(calls[c2].payload, "author_ids")
         /\ OthersAway({c1, c2}, calls[c1].id))
        => Members(calls[c1].id) \in {Range(Uniq(calls[c1].payload.author_ids)),
                                      Range(Uniq(calls[c2].payload.author_ids))}

C21_CommitTogether ==
    /\ C21_IntermediateHidden
    /\ C21_CreatedWithLinks
    /\ C21_OneOfTwo

\* ------------------------------------------------------------------
\* SpecOrder: the author list of a serialized event
\* ------------------------------------------------------------------
\* The orders in which a select without ORDER BY may return the rows
\* of a set (the link rows of an event, lines 41-43).
RowOrders(S) == {s \in [1..Cardinality(S) -> S] : Range(s) = S}

\* _serialize_event, given the author ids of the link rows in the order
\* the select returned them: the tags decoded, and the summaries of the
\* authors that still exist, in that order.
_serialize_event(event_id, author_ids) ==
    LET kept == SelectSeq(author_ids, LAMBDA i : i \in DOMAIN authors)
    IN  [id |-> event_id,
         tags |-> _safe_parse_tags(events[event_id].tags_json),
         authors |-> [k \in 1..Len(kept) |->
                         [id |-> kept[k], name |-> authors[kept[k]].name,
                          profile_photo_url |-> authors[kept[k]].profile_photo_url]]]

\* GET /events/{event_id}
get_event(event_id) ==
    IF event_id \notin DOMAIN events THEN Fail("get_event", "none", event_id, 404)
    ELSE \E author_ids \in RowOrders(Members(event_id)) :
            /\ Respond("get_event", "none", event_id, 200,
                       _serialize_event(event_id, author_ids))
            /\ UNCHANGED <<store, seqs, calls, codecVars>>

OrderAuthorIds == {<<1>>, <<2, 1>>, <<1, 2, 1>>}

OrderCreate ==
    /\ eventSeq < MaxSyncEvents
    /\ \E ids \in OrderAuthorIds :
          create_event("admin", [name |-> <<"e">>, author_ids |-> ids])

OrderUpdate ==
    \E id \in SyncEventIds, ids \in OrderAuthorIds :
        update_event("admin", id, [author_ids |-> ids])

OrderGet == \E id \in SyncEventIds : get_event(id)

NextOrder == SyncCreateAuthor \/ OrderCreate \/ OrderUpdate \/ OrderGet

SpecOrder == Init /\ [][NextOrder]_vars

\* The event and the author_ids of a request that set a membership.
SetMembership(r) ==
    /\ r.op \in {"create_event", "update_event"} /\ r.status = 200
    /\ Has(IF r.op = "create_event" THEN r.req ELSE r.req.payload, "author_ids")
SuppliedEvent(r) == IF r.op = "create_event" THEN r.eff.inserted ELSE r.req.id
SuppliedIds(r) == IF r.op = "create_event" THEN r.req.author_ids ELSE r.req.payload.author_ids

\* C22: a get_event that follows the create_event or update_event that
\* set the membership of the event returns the author summaries of the
\* supplied ids, duplicates removed (first occurrence kept), in the
\* supplied order; and the link table never holds two rows for one
\* (event_id, author_id) pair.
C22_Step ==
    /\ (/\ last'.op = "get_event" /\ last'.status = 200
        /\ SetMembership(last) /\ SuppliedEvent(last) = last'.req)
       => [k \in 1..Len(last'.eff.authors) |-> last'.eff.authors[k].id]
              = Uniq(SuppliedIds(last))
    /\ \A l1, l2 \in links' :
          (l1.event_id = l2.event_id /\ l1.author_id = l2.author_id) => l1 = l2

C22_AuthorsInOrder == [][C22_Step]_vars

\* ------------------------------------------------------------------
\* SpecPosts: the list of top-level posts
\* ------------------------------------------------------------------
\* posted_at is text: ORDER BY compares it as text, NULL before any text.
PostedBefore(x, y) == DateLess(posts[x].posted_at, posts[y].posted_at)

\* The rows of the query of get_posts (lines 30-33): platform "" stands
\* for a platform that is None or empty, which "if platform" skips.
TopLevel(platform) ==
    {p \in DOMAIN posts : /\ posts[p].parent_id = NoId
                          /\ platform # "" => posts[p].platform = platform}

\* The orders in which the query may return its rows: ORDER BY
\* posted_at DESC for "newest", ORDER BY posted_at for "oldest", no
\* ORDER BY for any other sort (lines 35-38).
QueryOrders(rows, sort) ==
    {s \in RowOrders(rows) :
        \A i, j \in 1..Len(s) :
            i < j => /\ sort = "newest" => ~PostedBefore(s[i], s[j])
                     /\ sort = "oldest" => ~PostedBefore(s[j], s[i])}

\* GET /posts/ : public.  The response is reduced to the ids of the
\* posts it lists.
get_posts(platform, sort) ==
    \E s \in QueryOrders(TopLevel(platform), sort) :
        /\ Respond("get_posts", "none", [platform |-> platform, sort |-> sort],
                   200, [posts |-> s])
        /\ UNCHANGED <<store, seqs, calls, codecVars>>

\* sort "" stands for an absent sort (None).
ListSorts == {"newest", "oldest", "", "top"}

MaxListPosts == 2

ListCreatePost ==
    /\ postSeq < MaxListPosts
    /\ \E platform \in {"ig", "x"}, posted_at \in {<<"1">>, <<"2">>}, parent_id \in {NoId, 1} :
          create_post("admin", PostBody(platform, NoId, posted_at, parent_id))

ListPosts == \E platform \in {"", "ig"}, sort \in ListSorts : get_posts(platform, sort)

NextPosts == ListCreatePost \/ ListPosts

SpecPosts == Init /\ [][NextPosts]_vars

\* C23: get_posts returns exactly the posts with null parent_id (of the
\* given platform when one is given), each once, by posted_at ascending
\* when sort is "oldest" and by posted_at descending for every other
\* sort, an absent or unrecognized one included.
C23_Step ==
    (last'.op = "get_posts" /\ last' # last)
    => LET s == last'.eff.posts
           platform == last'.req.platform
       IN  /\ Range(s) = {p \in DOMAIN posts : /\ posts[p].parent_id = NoId
                                               /\ platform # "" => posts[p].platform = platform}
           /\ \A i, j \in 1..Len(s) :
                 i < j => /\ s[i] # s[j]
                          /\ IF last'.req.sort = "oldest"
                             THEN ~DateLess(posts[s[j]].posted_at, posts[s[i]].posted_at)
                             ELSE ~DateLess(posts[s[i]].posted_at, posts[s[j]].posted_at)

C23_ListOrdered == [][C23_Step]_vars

\* ------------------------------------------------------------------
\* SpecOverride: the fields of the primary that edit_pair overrides
\* ------------------------------------------------------------------
\* Bodies of PATCH /texts/pair without a translation: empty, and one
\* for each key that may carry a value for the primary.
OverridePayloads ==
    {<<>>, [content |-> <<"d">>], [caption |-> <<"e">>],
     [media_url |-> <<"m">>], [author_id |-> 1]}

OverrideAddText ==
    /\ textSeq < MaxPairTexts
    /\ add_text("admin", TextBody(1, "ig-comment", <<"c">>, NoId))

OverrideEdit ==
    \E id \in PairIds, payload \in OverridePayloads : edit_pair("admin", id, payload)

NextOverride == OverrideAddText \/ OverrideEdit

SpecOverride == InitPair /\ [][NextOverride]_vars

\* C24: an edit_pair step that answers 200 leaves in the primary, for
\* each of content, media_url and author_id, the value the payload
\* carries under that key, and the previous value when the payload has
\* no such key.
C24_Step ==
    (last'.op = "edit_pair" /\ last'.status = 200)
    => LET id == last'.req.id
           payload == last'.req.payload
       IN  /\ texts'[id].content = Get(payload, "content", texts[id].content)
           /\ texts'[id].media_url = Get(payload, "media_url", texts[id].media_url)
           /\ texts'[id].author_id = Get(payload, "author_id", texts[id].author_id)

C24_OverridesApplied == [][C24_Step]_vars

\* The type of the companion translation of a platform comment type:
\* the platform prefix followed by "-translation".
CompanionType(type) ==
    CASE type = "ig-comment" -> "ig-translation"
      [] type = "tt-comment" -> "tt-translation"
      [] type = "x-comment" -> "x-translation"

\* C25: an edit_pair step with a non-blank translation on a stored text
\* of a platform comment type answers 200 and writes one child, by
\* insertion or in place; that child has the companion type of the
\* primary's type, the post_id and the author_id of the primary as
\* stored by the step, and parent_comment_id = text_id.
C25_Step ==
    (/\ last'.op = "edit_pair" /\ last'.tok = "admin"
     /\ last'.req.id \in DOMAIN texts
     /\ texts[last'.req.id].type \in {"ig-comment", "tt-comment", "x-comment"}
     /\ ~IsBlank(last'.req.payload))
    => /\ last'.status = 200
       /\ \E k \in DOMAIN texts' :
             /\ last'.eff \in {[inserted |-> k], [updated |-> k]}
             /\ texts'[k].type = CompanionType(texts[last'.req.id].type)
             /\ texts'[k].post_id = texts'[last'.req.id].post_id
             /\ texts'[k].author_id = texts'[last'.req.id].author_id
             /\ texts'[k].parent_comment_id = last'.req.id

C25_ChildWritten == [][C25_Step]_vars

\* ------------------------------------------------------------------
\* SpecIntegrity: posts, replies and texts under every handler that
\* creates or deletes them
\* ------------------------------------------------------------------
\* POST /texts/ with a body for any post id, parent_comment_id null or
\* the id of a stored text.
IntegrityAddText ==
    \E id \in PostIds, parent \in {NoId} \cup DOMAIN texts :
        add_text("admin", TextBody(id, "ig-comment", <<"c">>, parent))

NextIntegrity ==
    CreatePost \/ CreateReply \/ DeletePost \/ IntegrityAddText \/ TextsEdit \/ TextsDelete

SpecIntegrity == Init /\ [][NextIntegrity]_vars

\* C26: in every state reached through create_post, create_reply,
\* add_text, edit_pair, delete_pair and delete_post, the post_id of
\* every stored text is the id of a stored post and every
\* parent_comment_id that is not null is the id of a stored text.
C26_PostExists == \A t \in DOMAIN texts : texts[t].post_id \in DOMAIN posts

C26_ParentExists ==
    \A t \in DOMAIN texts :
        texts[t].parent_comment_id # NoId => texts[t].parent_comment_id \in DOMAIN texts

C26_ReferentialIntegrity == C26_PostExists /\ C26_ParentExists
====
